---- MODULE Spec2Model ----
(***************************************************************************)
(* State-machine model of the PandA hardware-test pipelines:               *)
(*   - hardware-tests/seq.py  : producers -> handle_seq -> device ->       *)
(*                              handle_pcap -> checker workers, and main   *)
(*   - hardware-tests/pgen.py : handle_pgen -> device -> handle_pcap, main *)
(*   - hardware-tests/panda.py: PandaClient.collect / put_table            *)
(* The device (the PandA server and FPGA) is the environment; its wire     *)
(* behaviour is taken from the specification's section 6.                  *)
(***************************************************************************)
EXTENDS Integers, Sequences, FiniteSets, TLC

\* ------------------------------------------------------------- bounds
MaxBlocks == 2
MaxRepeats == 2
MaxProducers == 2
MaxCheckers == 2
MaxQueued == 2
MaxRecv == 12
MaxInjBlocks == 3
MaxPgenLines == 4
MaxLines == 2
MaxChunks == 2
MaxStream == 13
MaxVal == 2
MaxItems == 2
MaxEofs == 2
MaxPath == 3
MaxConnects == 2
LowDraw == 26

\* -------------------------------------------------- program constants
QueueSize == 16
PgenQueued == 2
ChunkSize == 191
RecvSize == 131072
CtlRecvSize == 4096
TIMEOUT == 3

\* ------------------------------------------------------------ helpers
Min(a, b) == IF a < b THEN a ELSE b

Pow2(n) == 2 ^ n

Bit(x, i) == (x \div Pow2(i)) % 2

\* Sequence s repeated n times.
RECURSIVE Repeat(_, _)
Repeat(s, n) == IF n <= 0 THEN <<>> ELSE s \o Repeat(s, n - 1)

\* First n elements of s (all of s when n >= Len(s)): s[:n].
Take(s, n) == SubSeq(s, 1, Min(n, Len(s)))

\* s without its first n elements: s[n:].
Drop(s, n) == SubSeq(s, Min(n, Len(s)) + 1, Len(s))

\* Numbers that may reach 2^32 are kept as << hi, lo >>, worth
\* hi * 65536 + lo with lo in 0..65535: a Python int when hi is unbounded,
\* a uint32 when hi is in 0..65535.
BigOf(n) == << n \div 65536, n % 65536 >>

BigAdd(a, n) == << a[1] + ((a[2] + n) \div 65536), (a[2] + n) % 65536 >>

BigLess(a, b) == a[1] < b[1] \/ (a[1] = b[1] /\ a[2] < b[2])

\* b - a, for a <= b not far apart.
BigDiff(b, a) == (b[1] - a[1]) * 65536 + (b[2] - a[2])

\* a & 0xffffffff
BigMask32(a) == << a[1] % 65536, a[2] >>

\* a % m
BigMod(a, m) == ((a[1] % m) * (65536 % m) + (a[2] % m)) % m

\* 2**32
Top32 == << 65536, 0 >>

\* np.arange(a, b, dtype=np.uint32)
Arange(a, b) ==
    IF BigLess(a, b) THEN [k \in 1..BigDiff(b, a) |-> BigAdd(a, k - 1)] ELSE <<>>

\* A uint32 as its four little-endian bytes (the capture stream is RAW).
LEBytes(w) == << w[2] % 256, w[2] \div 256, w[1] % 256, w[1] \div 256 >>

RECURSIVE WordsToBytes(_)
WordsToBytes(ws) ==
    IF ws = <<>> THEN <<>> ELSE LEBytes(Head(ws)) \o WordsToBytes(Tail(ws))

\* np.frombuffer(data, dtype=np.uint32); defined when Len(bytes) % 4 = 0.
FromBuffer(bytes) ==
    [k \in 1..(Len(bytes) \div 4) |->
        << bytes[4 * k - 1] + 256 * bytes[4 * k],
           bytes[4 * k - 3] + 256 * bytes[4 * k - 2] >>]

\* Bit i (0..31) of a uint32.
WordBit(w, i) == IF i < 16 THEN Bit(w[2], i) ELSE Bit(w[1], i - 16)

\* w1 of a sequencer table line: 0x20001 | (val << 20).
W1(val) == 131073 + val * 1048576

\* The six output bits of a table line, as the device drives them.
OutVal(w1) == (w1 \div 1048576) % 64

\* Bit positions of OUTA..OUTF inside the captured BITS word.
SeqOffsets == << 2, 3, 4, 5, 6, 7 >>

\* The captured word for output value val: bit i of val at offsets[i].
CaptureWord(val, offsets) ==
    BigOf(Bit(val, 0) * Pow2(offsets[1]) + Bit(val, 1) * Pow2(offsets[2])
            + Bit(val, 2) * Pow2(offsets[3]) + Bit(val, 3) * Pow2(offsets[4])
            + Bit(val, 4) * Pow2(offsets[5]) + Bit(val, 5) * Pow2(offsets[6]))

\* checker: val |= 1 << bit_i for every bit_i with (1 << offsets[bit_i]) & word.
DecodeVal(word, offsets) ==
    WordBit(word, offsets[1]) + 2 * WordBit(word, offsets[2])
      + 4 * WordBit(word, offsets[3]) + 8 * WordBit(word, offsets[4])
      + 16 * WordBit(word, offsets[5]) + 32 * WordBit(word, offsets[6])

\* random.randint(0, 63)
RandVals == 0..63

\* The draws of the runs that are checked: LowDraw and 63 - LowDraw, for 26
\* binary 011010 and 100101. Every bit is set in one and clear in the other,
\* and neither is its own mirror image.
Draws == {LowDraw, 63 - LowDraw}

\* ---------------------------------------------------------- variables
VARIABLES
    args,        \* parsed command line of the run
    fault,       \* how the device misbehaves in this run ("none": it does not)
    buffer_q,    \* seq: multiprocessing.Queue(16) of (content, expected)
    expect_q,    \* seq: multiprocessing.Queue(16) of expected lists
    checker_q,   \* seq: multiprocessing.Queue(16) of (nblock, data), sentinels
    produced,    \* seq: multiprocessing.Event
    lock,        \* seq: multiprocessing.Lock, 0 when free, else its holder
    prod,        \* seq: data_producer processes, blocks made so far
    seq,         \* seq: handle_seq process
    pcap,        \* seq: handle_pcap process
    chk,         \* seq: checker worker processes
    main,        \* seq: main, the orchestrator
    pgen,        \* pgen: handle_pgen process
    gpcap,       \* pgen: handle_pcap process
    gmain,       \* pgen: main, the orchestrator
    dev,         \* device: the SEQ or PGEN block and its table
    stream,      \* bytes the device has sent on the capture port, not yet read
    enc,         \* panda.py: a call of prepare_table_command and its reader
    col,         \* panda.py: a run of the collect generator
    ctl,         \* panda.py: a call on the control connection and its peer
    nav          \* panda.py: the resolution of a path to an Item

seqVars == << buffer_q, expect_q, checker_q, produced, lock, prod, seq, pcap,
              chk, main >>

pgenVars == << pgen, gpcap, gmain >>

libVars == << enc, col, ctl, nav >>

vars == << args, fault, seqVars, pgenVars, dev, stream, libVars >>

\* ------------------------------------------------------------- inputs
\* parse_args of seq.py: nblocks >= 1, repeats and nblocks not both above 1,
\* producer_threads divides nblocks.
SeqArgsOk(a) ==
    /\ a.nblocks >= 1
    /\ (a.repeats = 1 \/ a.nblocks = 1)
    /\ a.nblocks % a.producer_threads = 0

\* Runs of the whole seq pipeline.
SeqArgsSet ==
    { a \in [nblocks : 1..MaxBlocks, repeats : 1..MaxRepeats,
             producer_threads : 1..MaxProducers, checker_threads : 1..MaxCheckers,
             max_blocks_queued : {1, MaxQueued}, lines_per_block : {1}] :
        SeqArgsOk(a) }

\* Longer streaming sessions, for the runs of the injection side alone.
InjSeqArgsSet ==
    { a \in [nblocks : 1..MaxInjBlocks, repeats : {1},
             producer_threads : {1}, checker_threads : {1},
             max_blocks_queued : 1..MaxQueued, lines_per_block : 1..MaxLines] :
        SeqArgsOk(a) }

\* --start-number of pgen.py: 0, 1, and 2^32 - 1 (the first block wraps).
StartNumbers == { BigOf(0), BigOf(1), << 65535, 65535 >> }

\* parse_args of pgen.py: nblocks > 0, repeats and nblocks not both above 1.
PgenArgsSet ==
    { a \in [nblocks : 1..MaxPgenLines, repeats : 1..MaxRepeats,
             lines_per_block : 1..MaxLines, start_number : StartNumbers] :
        /\ (a.repeats = 1 \/ a.nblocks = 1)
        /\ a.lines_per_block * a.nblocks * a.repeats <= MaxPgenLines }

\* What the device may do wrong in a run: reject the first or the second
\* upload, lose the last word, send one word too many, corrupt the first word.
Faults == {"none", "reject0", "reject1", "short", "surplus", "corrupt"}

FaultsFor(a) == IF a.nblocks > 1 THEN Faults ELSE Faults \ {"reject1"}

None == -1

Sentinel == [nblock |-> None, data |-> <<>>]

Ended(pc) == pc \in {"done", "failed"}

\* ------------------------------------------------ PandaClient (panda.py)
\* An encoder that never marks the final block of a streaming session.
SuffixNeverLast(streaming, last) == IF streaming THEN "<<" ELSE "<"

\* prepare_table_command: suffix of the open line.
Suffix(streaming, last) ==
    IF streaming /\ last THEN "<<|" ELSE IF streaming THEN "<<" ELSE "<"

\* A receive loop that, without nbytes, yields after every read.
CollectStepEager(acc, chunk, nbytes) ==
    LET a == acc \o chunk IN
    IF nbytes # 0
    THEN IF Len(a) >= nbytes
         THEN [out |-> << Take(a, nbytes) >>, acc |-> Drop(a, nbytes)]
         ELSE [out |-> <<>>, acc |-> a]
    ELSE [out |-> << a >>, acc |-> <<>>]

\* A receive loop that forgets what is left over after it yields a block.
CollectStepDrops(acc, chunk, nbytes) ==
    LET a == acc \o chunk IN
    IF nbytes # 0
    THEN IF Len(a) >= nbytes
         THEN [out |-> << Take(a, nbytes) >>, acc |-> <<>>]
         ELSE [out |-> <<>>, acc |-> a]
    ELSE IF Len(a) % 4 = 0
         THEN [out |-> << a >>, acc |-> <<>>]
         ELSE [out |-> <<>>, acc |-> a]

\* collect: one pass of the receive loop with a non-empty chunk. nbytes = 0
\* stands for nbytes=None. out holds the buffer yielded, if one is.
CollectStep(acc, chunk, nbytes) ==
    LET a == acc \o chunk IN
    IF nbytes # 0
    THEN IF Len(a) >= nbytes
         THEN [out |-> << Take(a, nbytes) >>, acc |-> Drop(a, nbytes)]
         ELSE [out |-> <<>>, acc |-> a]
    ELSE IF Len(a) % 4 = 0
         THEN [out |-> << a >>, acc |-> <<>>]
         ELSE [out |-> <<>>, acc |-> a]

\* collect: after the peer closed, the residual is yielded if not empty.
CollectEnd(acc) == IF acc # <<>> THEN << acc >> ELSE <<>>

\* ------------------------------------------------------------- device
\* The device's answer to upload number i.
DevAck(i) ==
    IF (fault = "reject0" /\ i = 0) \/ (fault = "reject1" /\ i = 1)
    THEN "ERR" ELSE "OK"

\* An accepted table write: "<" replaces the table, which is then played
\* REPEATS times; "<<" appends; "<<|" appends the final block.
DevPutTable(d, lines, suffix) ==
    IF suffix = "<"
    THEN [d EXCEPT !.queue = Repeat(lines, d.repeats), !.last = TRUE]
    ELSE [d EXCEPT !.queue = d.queue \o lines, !.last = (suffix = "<<|")]

\* TABLE.QUEUED_LINES
QueuedLines(d) == Len(d.queue)

\* SEQ.ACTIVE / PGEN.ACTIVE
DevActive(d) == d.enabled /\ ~(d.last /\ d.queue = <<>>)

\* The line at the head of the queue is the last one of the final block.
DevLastLine(d) == d.last /\ Len(d.queue) = 1

\* The words captured for the line at the head of the queue: good is the
\* right word, bad a wrong one.
DevWords(d, good, bad) ==
    IF fault = "short" /\ DevLastLine(d) THEN <<>>
    ELSE IF fault = "surplus" /\ DevLastLine(d) THEN << good, good >>
    ELSE IF fault = "corrupt" /\ d.emitted = 0 THEN << bad >>
    ELSE << good >>

DevInit(kind) ==
    [kind |-> kind, enabled |-> FALSE, repeats |-> 1, queue |-> <<>>,
     last |-> FALSE, closed |-> FALSE, emitted |-> 0]

\* The enabled device plays the line at the head of its queue and the word
\* captured for it goes out on the capture port. After the last line of the
\* final block the capture ends and the device closes the connection.
DevPlay(words) ==
    /\ stream' = stream \o WordsToBytes(words)
    /\ dev' = [dev EXCEPT !.queue = Tail(dev.queue),
                          !.emitted = @ + 1,
                          !.closed = DevLastLine(dev)]

\* ------------------------------------------------- frames of the two runs
SeqFrame == UNCHANGED << args, fault, pgenVars, libVars >>

PgenFrame == UNCHANGED << args, fault, seqVars, libVars >>

LibOff ==
    /\ enc = [pc |-> "off"]
    /\ col = [pc |-> "off"]
    /\ ctl = [pc |-> "off"]
    /\ nav = [pc |-> "off"]

PgenOff ==
    /\ pgen = [pc |-> "off"]
    /\ gpcap = [pc |-> "off"]
    /\ gmain = "off"

SeqOff ==
    /\ buffer_q = <<>>
    /\ expect_q = <<>>
    /\ checker_q = <<>>
    /\ produced = FALSE
    /\ lock = 0
    /\ prod = <<>>
    /\ seq = [pc |-> "off"]
    /\ pcap = [pc |-> "off"]
    /\ chk = <<>>
    /\ main = "off"

\* --------------------------------------------------------- seq.py: Init
\* main up to line 244: the layout is configured (ENABLE=ZERO, REPEATS=1, an
\* empty table), the queues, the event and the lock are new, and every
\* process has been started.
SeqInitWith(argsSet, faults) ==
    /\ args \in argsSet
    /\ fault \in (faults \cap FaultsFor(args))
    /\ buffer_q = <<>>
    /\ expect_q = <<>>
    /\ checker_q = <<>>
    /\ produced = FALSE
    /\ lock = 0
    /\ prod = [p \in 1..args.producer_threads |-> 0]
    /\ seq = [pc |-> "setup", i |-> 0, content |-> <<>>, expected |-> <<>>,
              result |-> "", polled |-> None, acks |-> <<>>,
              opens |-> <<>>]
    /\ pcap = [pc |-> "arm", acc |-> <<>>, data |-> <<>>, checked |-> 0,
               nblock |-> 0, sent |-> 0, eof |-> FALSE, rx |-> 0]
    /\ chk = [w \in 1..args.checker_threads |->
                [pc |-> "acquire", nblock |-> None, data |-> <<>>,
                 expected |-> [seqno |-> None, vals |-> <<>>],
                 compared |-> 0, stops |-> 0]]
    /\ main = "wait"
    /\ dev = DevPutTable(DevInit("SEQ"), <<>>, Suffix(FALSE, FALSE))
    /\ stream = <<>>
    /\ PgenOff
    /\ LibOff

SeqInit == SeqInitWith(SeqArgsSet, Faults \ {"reject1"})

\* ------------------------------------------------ seq.py: data_producer
\* Line 136 with the default arguments: math.floor(0.4 * 1e-6 * 125000000)
Ticks == 50

\* Line 138: out_ticks = ticks // 2
OutTicks == Ticks \div 2

ProducerLine(val) == << W1(val), 0, OutTicks, 0 >>

\* A producer whose put does not wait for room in buffer_q.
ProduceValsNoWait(p, vals) ==
    /\ prod[p] < args.nblocks \div args.producer_threads
    /\ buffer_q' = Append(buffer_q,
                      [content |-> [j \in 1..args.lines_per_block |->
                                       ProducerLine(vals[j])],
                       expected |-> vals])
    /\ prod' = [prod EXCEPT ![p] = @ + 1]
    /\ UNCHANGED << expect_q, checker_q, produced, lock, seq, pcap, chk, main,
                    dev, stream >>
    /\ SeqFrame

\* Lines 139-156 for the draws vals: one block of lines_per_block lines, put
\* on buffer_q; the put waits while the queue is full.
ProduceVals(p, vals) ==
    /\ prod[p] < args.nblocks \div args.producer_threads
    /\ Len(buffer_q) < QueueSize
    /\ buffer_q' = Append(buffer_q,
                      [content |-> [j \in 1..args.lines_per_block |->
                                       ProducerLine(vals[j])],
                       expected |-> vals])
    /\ prod' = [prod EXCEPT ![p] = @ + 1]
    /\ UNCHANGED << expect_q, checker_q, produced, lock, seq, pcap, chk, main,
                    dev, stream >>
    /\ SeqFrame

\* Lines 139-156: every line of the block draws its value with
\* random.randint(0, 63).
Produce(p) ==
    \E vals \in [1..args.lines_per_block -> RandVals] : ProduceVals(p, vals)

\* --------------------------------------------------- seq.py: handle_seq
\* An injector that takes every session for a streaming one.
SeqAlwaysStreaming == args.nblocks >= 1

\* Line 84: streaming = args.nblocks > 1
SeqStreaming == args.nblocks > 1

\* Lines 76-85: connect, REPEATS.put(args.repeats), PERIOD.RAW.put(ticks).
SeqSetup ==
    /\ seq.pc = "setup"
    /\ seq' = [seq EXCEPT !.pc = "get"]
    /\ dev' = [dev EXCEPT !.repeats = args.repeats]
    /\ UNCHANGED << buffer_q, expect_q, checker_q, produced, lock, prod, pcap,
                    chk, main, stream >>
    /\ SeqFrame

\* Line 88: content, expected = buffer_q.get()
SeqGet ==
    /\ seq.pc = "get"
    /\ buffer_q # <<>>
    /\ seq' = [seq EXCEPT !.pc = "put_expect",
                          !.content = Head(buffer_q).content,
                          !.expected = Head(buffer_q).expected]
    /\ buffer_q' = Tail(buffer_q)
    /\ UNCHANGED << expect_q, checker_q, produced, lock, prod, pcap, chk, main,
                    dev, stream >>
    /\ SeqFrame

\* Line 89: expect_q.put(expected). seqno records that this is put number i.
SeqPutExpect ==
    /\ seq.pc = "put_expect"
    /\ Len(expect_q) < QueueSize
    /\ expect_q' = Append(expect_q, [seqno |-> seq.i, vals |-> seq.expected])
    /\ seq' = [seq EXCEPT !.pc = "put_table"]
    /\ UNCHANGED << buffer_q, checker_q, produced, lock, prod, pcap, chk, main,
                    dev, stream >>
    /\ SeqFrame

\* Lines 93-95: result = client.put_table(..., streaming, last): the upload is
\* sent and the device's reply read. acks keeps the replies so far.
SeqPutTable ==
    /\ seq.pc = "put_table"
    /\ LET ack == DevAck(seq.i)
           suffix == Suffix(args.nblocks > 1, seq.i = args.nblocks - 1)
       IN /\ seq' = [seq EXCEPT !.pc = "set_event", !.result = ack,
                                !.polled = None, !.acks = Append(@, ack),
                                !.opens = Append(@, suffix)]
          /\ dev' = IF ack = "OK" THEN DevPutTable(dev, seq.content, suffix)
                    ELSE dev
    /\ UNCHANGED << buffer_q, expect_q, checker_q, produced, lock, prod, pcap,
                    chk, main, stream >>
    /\ SeqFrame

\* The injector moves on to the next block, or closes after the last one.
SeqNextBlock(s) ==
    IF s.i + 1 < args.nblocks
    THEN [s EXCEPT !.pc = "get", !.i = @ + 1]
    ELSE [s EXCEPT !.pc = "done", !.i = @ + 1]

\* An injector that goes on whatever the reply to the upload.
SeqSetEventNoAssert ==
    /\ seq.pc = "set_event"
    /\ produced' = TRUE
    /\ seq' = IF SeqStreaming THEN [seq EXCEPT !.pc = "poll"]
              ELSE SeqNextBlock(seq)
    /\ UNCHANGED << buffer_q, expect_q, checker_q, lock, prod, pcap, chk, main,
                    dev, stream >>
    /\ SeqFrame

\* Lines 97-100: event.set(), then assert result.startswith(b'OK'). Without
\* streaming the while of line 101 is skipped.
SeqSetEvent ==
    /\ seq.pc = "set_event"
    /\ produced' = TRUE
    /\ seq' = IF seq.result # "OK" THEN [seq EXCEPT !.pc = "failed"]
              ELSE IF SeqStreaming THEN [seq EXCEPT !.pc = "poll"]
              ELSE SeqNextBlock(seq)
    /\ UNCHANGED << buffer_q, expect_q, checker_q, lock, prod, pcap, chk, main,
                    dev, stream >>
    /\ SeqFrame

\* A limit counted in table words (four per line) instead of lines.
SeqMustWaitWords(queued) ==
    queued >= args.max_blocks_queued * args.lines_per_block * 4

\* Lines 101-102: the wait goes on while the poll is at or above the limit.
SeqMustWait(queued) == queued >= args.max_blocks_queued * args.lines_per_block

\* Lines 101-103: one QUEUED_LINES poll.
SeqPoll ==
    /\ seq.pc = "poll"
    /\ LET queued == QueuedLines(dev) IN
         seq' = IF SeqMustWait(queued) THEN [seq EXCEPT !.polled = queued]
                ELSE SeqNextBlock([seq EXCEPT !.polled = queued])
    /\ UNCHANGED << buffer_q, expect_q, checker_q, produced, lock, prod, pcap,
                    chk, main, dev, stream >>
    /\ SeqFrame

\* -------------------------------------------------- seq.py: handle_pcap
SeqNBytes == args.lines_per_block * 4

\* Lines 109-113: connect, disable_captures, CAPTURE.put('Value'), arm.
PcapArm ==
    /\ pcap.pc = "arm"
    /\ pcap' = [pcap EXCEPT !.pc = "recv"]
    /\ UNCHANGED << buffer_q, expect_q, checker_q, produced, lock, prod, seq,
                    chk, main, dev, stream >>
    /\ SeqFrame

\* Line 117, one data_sock.recv of collect(nbytes): a chunk of 1..MaxRecv
\* bytes, or the empty chunk once the device has closed the connection. rx
\* counts the bytes received.
PcapRecv ==
    /\ pcap.pc = "recv"
    /\ \/ /\ stream # <<>>
          /\ \E n \in 1..Min(Len(stream), MaxRecv) :
               LET r == CollectStep(pcap.acc, Take(stream, n), SeqNBytes) IN
               /\ stream' = Drop(stream, n)
               /\ pcap' = IF r.out # <<>>
                          THEN [pcap EXCEPT !.pc = "put", !.data = r.out[1],
                                            !.acc = r.acc, !.rx = @ + n]
                          ELSE [pcap EXCEPT !.acc = r.acc, !.rx = @ + n]
       \/ /\ stream = <<>>
          /\ dev.closed
          /\ stream' = stream
          /\ LET out == CollectEnd(pcap.acc) IN
             pcap' = IF out # <<>>
                     THEN [pcap EXCEPT !.pc = "put", !.data = out[1],
                                       !.acc = <<>>, !.eof = TRUE]
                     ELSE [pcap EXCEPT !.pc = "sentinel", !.eof = TRUE]
    /\ UNCHANGED << buffer_q, expect_q, checker_q, produced, lock, prod, seq,
                    chk, main, dev >>
    /\ SeqFrame

\* Lines 119-121: checker_q.put((nblock, data)); checked += len(data) // 4.
PcapPut ==
    /\ pcap.pc = "put"
    /\ Len(checker_q) < QueueSize
    /\ checker_q' = Append(checker_q, [nblock |-> pcap.nblock, data |-> pcap.data])
    /\ pcap' = [pcap EXCEPT !.pc = IF pcap.eof THEN "sentinel" ELSE "recv",
                            !.checked = @ + (Len(pcap.data) \div 4),
                            !.nblock = @ + 1,
                            !.data = <<>>]
    /\ UNCHANGED << buffer_q, expect_q, produced, lock, prod, seq, chk, main,
                    dev, stream >>
    /\ SeqFrame

\* Lines 125-127: one checker_q.put((None, None)) per checker worker.
PcapSentinel ==
    /\ pcap.pc = "sentinel"
    /\ pcap.sent < args.checker_threads
    /\ Len(checker_q) < QueueSize
    /\ checker_q' = Append(checker_q, Sentinel)
    /\ pcap' = [pcap EXCEPT !.sent = @ + 1]
    /\ UNCHANGED << buffer_q, expect_q, produced, lock, prod, seq, chk, main,
                    dev, stream >>
    /\ SeqFrame

\* A count check that lets a surplus through.
SeqCountAtLeast(checked) ==
    args.lines_per_block * args.nblocks * args.repeats <= checked

\* Lines 129-130: expected_lines == checked
SeqCountOk(checked) ==
    args.lines_per_block * args.nblocks * args.repeats = checked

\* Lines 129-132: the final assertion, then close.
PcapAssert ==
    /\ pcap.pc = "sentinel"
    /\ pcap.sent >= args.checker_threads
    /\ pcap' = [pcap EXCEPT !.pc = IF SeqCountOk(pcap.checked) THEN "done"
                                   ELSE "failed"]
    /\ UNCHANGED << buffer_q, expect_q, checker_q, produced, lock, prod, seq,
                    chk, main, dev, stream >>
    /\ SeqFrame

\* A worker that goes on to the queues without waiting for the lock.
CheckerAcquireNoLock(w) ==
    /\ chk[w].pc = "acquire"
    /\ lock' = w
    /\ chk' = [chk EXCEPT ![w].pc = "get"]
    /\ UNCHANGED << buffer_q, expect_q, checker_q, produced, prod, seq, pcap,
                    main, dev, stream >>
    /\ SeqFrame

\* ------------------------------------------------------ seq.py: checker
\* Line 181: lock.acquire()
CheckerAcquire(w) ==
    /\ chk[w].pc = "acquire"
    /\ lock = 0
    /\ lock' = w
    /\ chk' = [chk EXCEPT ![w].pc = "get"]
    /\ UNCHANGED << buffer_q, expect_q, checker_q, produced, prod, seq, pcap,
                    main, dev, stream >>
    /\ SeqFrame

\* A worker that leaves on a sentinel without releasing the lock.
CheckerGetKeepLock(w) ==
    /\ chk[w].pc = "get"
    /\ checker_q # <<>>
    /\ checker_q' = Tail(checker_q)
    /\ lock' = lock
    /\ IF Head(checker_q).nblock = None
       THEN chk' = [chk EXCEPT ![w].pc = "done", ![w].stops = @ + 1]
       ELSE chk' = [chk EXCEPT ![w].pc = "expect",
                               ![w].nblock = Head(checker_q).nblock,
                               ![w].data = Head(checker_q).data]
    /\ UNCHANGED << buffer_q, expect_q, produced, prod, seq, pcap, main, dev,
                    stream >>
    /\ SeqFrame

\* Lines 182-185: nblock, data = checker_q.get(); a sentinel releases the
\* lock and ends the worker. stops counts the sentinels the worker took.
CheckerGet(w) ==
    /\ chk[w].pc = "get"
    /\ checker_q # <<>>
    /\ checker_q' = Tail(checker_q)
    /\ IF Head(checker_q).nblock = None
       THEN /\ lock' = 0
            /\ chk' = [chk EXCEPT ![w].pc = "done", ![w].stops = @ + 1]
       ELSE /\ lock' = lock
            /\ chk' = [chk EXCEPT ![w].pc = "expect",
                                  ![w].nblock = Head(checker_q).nblock,
                                  ![w].data = Head(checker_q).data]
    /\ UNCHANGED << buffer_q, expect_q, produced, prod, seq, pcap, main, dev,
                    stream >>
    /\ SeqFrame

\* Lines 187-188: expected = expect_q.get(); lock.release()
CheckerExpect(w) ==
    /\ chk[w].pc = "expect"
    /\ expect_q # <<>>
    /\ expect_q' = Tail(expect_q)
    /\ lock' = 0
    /\ chk' = [chk EXCEPT ![w].pc = "compare", ![w].expected = Head(expect_q)]
    /\ UNCHANGED << buffer_q, checker_q, produced, prod, seq, pcap, main, dev,
                    stream >>
    /\ SeqFrame

\* A comparison without the length assertion: zip() stops at the shorter of
\* the two.
BlockMatchesZip(data, expected, offsets) ==
    /\ Len(data) % 4 = 0
    /\ \A j \in 1..Min(Len(FromBuffer(data)), Len(expected)) :
         DecodeVal(FromBuffer(data)[j], offsets) = expected[j]

\* Lines 189-200: frombuffer, the length assertion and the value assertions.
BlockMatches(data, expected, offsets) ==
    /\ Len(data) % 4 = 0
    /\ Len(FromBuffer(data)) = Len(expected)
    /\ \A j \in 1..Len(expected) :
         DecodeVal(FromBuffer(data)[j], offsets) = expected[j]

\* Lines 189-200, then back to line 180. compared counts the blocks the
\* worker has compared.
CheckerCompare(w) ==
    /\ chk[w].pc = "compare"
    /\ chk' = IF BlockMatches(chk[w].data, chk[w].expected.vals, SeqOffsets)
              THEN [chk EXCEPT ![w].pc = "acquire", ![w].nblock = None,
                               ![w].data = <<>>,
                               ![w].expected = [seqno |-> None, vals |-> <<>>],
                               ![w].compared = @ + 1]
              ELSE [chk EXCEPT ![w].pc = "failed", ![w].compared = @ + 1]
    /\ UNCHANGED << buffer_q, expect_q, checker_q, produced, lock, prod, seq,
                    pcap, main, dev, stream >>
    /\ SeqFrame

\* An orchestrator that does not wait for the event.
MainNoWait ==
    /\ main = "wait"
    /\ main' = "enable"
    /\ UNCHANGED << buffer_q, expect_q, checker_q, produced, lock, prod, seq,
                    pcap, chk, dev, stream >>
    /\ SeqFrame

\* --------------------------------------------------------- seq.py: main
\* Line 247: produced.wait()
MainWait ==
    /\ main = "wait"
    /\ produced
    /\ main' = "enable"
    /\ UNCHANGED << buffer_q, expect_q, checker_q, produced, lock, prod, seq,
                    pcap, chk, dev, stream >>
    /\ SeqFrame

\* Lines 250-252: seq.ENABLE.put('ZERO'); seq.ENABLE.put('ONE')
MainEnable ==
    /\ main = "enable"
    /\ main' = "join"
    /\ dev' = [dev EXCEPT !.enabled = TRUE]
    /\ UNCHANGED << buffer_q, expect_q, checker_q, produced, lock, prod, seq,
                    pcap, chk, stream >>
    /\ SeqFrame

ProducerEnded(p) == prod[p] = args.nblocks \div args.producer_threads

SeqAllEnded ==
    /\ Ended(seq.pc)
    /\ Ended(pcap.pc)
    /\ \A w \in DOMAIN chk : Ended(chk[w].pc)
    /\ \A p \in DOMAIN prod : ProducerEnded(p)

\* Lines 253-254: proc.join() for every process.
MainJoin ==
    /\ main = "join"
    /\ SeqAllEnded
    /\ main' = "joined"
    /\ UNCHANGED << buffer_q, expect_q, checker_q, produced, lock, prod, seq,
                    pcap, chk, dev, stream >>
    /\ SeqFrame

\* Lines 256-259: while seq.ACTIVE.get(): sleep; then close.
MainActive ==
    /\ main = "joined"
    /\ ~DevActive(dev)
    /\ main' = "done"
    /\ UNCHANGED << buffer_q, expect_q, checker_q, produced, lock, prod, seq,
                    pcap, chk, dev, stream >>
    /\ SeqFrame

\* ------------------------------------------------------- device: SEQ
SeqDevEmit ==
    /\ dev.kind = "SEQ"
    /\ dev.enabled
    /\ dev.queue # <<>>
    /\ LET val == OutVal(Head(dev.queue)[1]) IN
         DevPlay(DevWords(dev, CaptureWord(val, SeqOffsets),
                          CaptureWord((val + 1) % 64, SeqOffsets)))
    /\ UNCHANGED seqVars
    /\ SeqFrame

\* -------------------------------------------------------- pgen.py: Init
\* main up to line 152: both processes have been started.
PgenInitWith(argsSet, faults) ==
    /\ args \in argsSet
    /\ fault \in (faults \cap FaultsFor(args))
    /\ pgen = [pc |-> "setup", i |-> 0,
               block_start |-> args.start_number,
               block_stop |-> BigAdd(args.start_number, args.lines_per_block),
               polled |-> None, acks |-> <<>>, opens |-> <<>>]
    /\ gpcap = [pc |-> "arm", acc |-> <<>>, i |-> args.start_number, rx |-> 0,
                err |-> "", reported |-> FALSE]
    /\ gmain = "start"
    /\ dev = DevInit("PGEN")
    /\ stream = <<>>
    /\ SeqOff
    /\ LibOff

PgenInit == PgenInitWith(PgenArgsSet, Faults)

\* ------------------------------------------------- pgen.py: handle_pgen
\* An injector that takes every session for a streaming one.
PgenAlwaysStreaming == TRUE

\* Line 84: streaming = args.nblocks > 1
PgenStreaming == args.nblocks > 1

\* Lines 67-84, one step for each command that writes what the device
\* model keeps, with the commands before it that do not: connect and
\* configure_layout up to ENABLE.put('ZERO') (line 39), up to REPEATS.put(1)
\* (line 45), the put_table of an empty table (line 47, its reply is not
\* looked at), and the rest of configure_layout up to
\* REPEATS.put(args.repeats) (line 74) and the end of line 84.
PgenSetup ==
    /\ \/ /\ pgen.pc = "setup"
          /\ pgen' = [pgen EXCEPT !.pc = "repeats1"]
          /\ dev' = [dev EXCEPT !.enabled = FALSE]
       \/ /\ pgen.pc = "repeats1"
          /\ pgen' = [pgen EXCEPT !.pc = "table0"]
          /\ dev' = [dev EXCEPT !.repeats = 1]
       \/ /\ pgen.pc = "table0"
          /\ pgen' = [pgen EXCEPT !.pc = "repeats"]
          /\ dev' = DevPutTable(dev, <<>>, Suffix(FALSE, FALSE))
       \/ /\ pgen.pc = "repeats"
          /\ pgen' = [pgen EXCEPT !.pc = "put_table"]
          /\ dev' = [dev EXCEPT !.repeats = args.repeats]
    /\ UNCHANGED << gpcap, gmain, stream >>
    /\ PgenFrame

\* A block built by the single arange of line 94 in every case.
PgenContentNoWrap(block_start, block_stop) ==
    Arange(BigMask32(block_start), BigMask32(block_stop))

\* Lines 87-94: the block's words, split in two when it wraps past 2^32.
PgenContent(block_start, block_stop) ==
    LET mblock_start == BigMask32(block_start)
        mblock_stop == BigMask32(block_stop)
    IN IF BigLess(mblock_stop, mblock_start)
       THEN Arange(mblock_start, Top32) \o Arange(BigOf(0), mblock_stop)
       ELSE Arange(mblock_start, mblock_stop)

\* The injector moves on to the next block, or closes after the last one.
PgenNextBlock(g) ==
    IF g.i + 1 < args.nblocks
    THEN [g EXCEPT !.pc = "put_table", !.i = @ + 1]
    ELSE [g EXCEPT !.pc = "done", !.i = @ + 1]

\* Lines 86-103: build block i, put_table, assert result.startswith(b'OK').
\* Without streaming the while of line 104 is skipped.
PgenPutTable ==
    /\ pgen.pc = "put_table"
    /\ LET ack == DevAck(pgen.i)
           suffix == Suffix(args.nblocks > 1, pgen.i = args.nblocks - 1)
           content == PgenContent(pgen.block_start, pgen.block_stop)
           sent == [pgen EXCEPT
                      !.block_start = BigAdd(@, args.lines_per_block),
                      !.block_stop = BigAdd(@, args.lines_per_block),
                      !.polled = None, !.acks = Append(@, ack),
                      !.opens = Append(@, suffix)]
       IN /\ dev' = IF ack = "OK" THEN DevPutTable(dev, content, suffix) ELSE dev
          /\ pgen' = IF ack # "OK" THEN [sent EXCEPT !.pc = "failed"]
                     ELSE IF PgenStreaming THEN [sent EXCEPT !.pc = "poll"]
                     ELSE PgenNextBlock(sent)
    /\ UNCHANGED << gpcap, gmain, stream >>
    /\ PgenFrame

\* An injector that never waits for room in the table.
PgenNeverWaits(queued) == FALSE

\* Line 104: the wait goes on while the poll is above the limit.
PgenMustWait(queued) == queued > PgenQueued * args.lines_per_block

\* Lines 104-105: one QUEUED_LINES poll.
PgenPoll ==
    /\ pgen.pc = "poll"
    /\ LET queued == QueuedLines(dev) IN
         pgen' = IF PgenMustWait(queued) THEN [pgen EXCEPT !.polled = queued]
                 ELSE PgenNextBlock([pgen EXCEPT !.polled = queued])
    /\ UNCHANGED << gpcap, gmain, dev, stream >>
    /\ PgenFrame

\* ------------------------------------------------- pgen.py: handle_pcap
\* Lines 111-117: connect, disable_captures, OUT.CAPTURE.put('Value'), arm.
PgenPcapArm ==
    /\ gpcap.pc = "arm"
    /\ gpcap' = [gpcap EXCEPT !.pc = "recv"]
    /\ UNCHANGED << pgen, gmain, dev, stream >>
    /\ PgenFrame

\* Lines 124-127: the value expected at entry j of a buffer, i lines in.
PgenExpected(i, j) ==
    IF args.repeats > 1
    THEN BigOf(BigMod(BigAdd(i, j), args.lines_per_block))
    ELSE BigMask32(BigAdd(i, j))

\* Lines 122-131: frombuffer and the assertion on every entry; the result is
\* the error raised ("" when none is) and the new i.
PgenCheck(g, data) ==
    IF Len(data) % 4 # 0 THEN [g EXCEPT !.pc = "failed", !.err = "buffer"]
    ELSE LET adata == FromBuffer(data) IN
         IF \A j \in 1..Len(adata) : adata[j] = PgenExpected(g.i, j - 1)
         THEN [g EXCEPT !.i = BigAdd(@, Len(adata))]
         ELSE [g EXCEPT !.pc = "failed", !.err = "value"]

\* Lines 138-139: i == lines_per_block * nblocks * repeats
PgenCountOk(i) == i = BigOf(args.lines_per_block * args.nblocks * args.repeats)

\* Lines 137-141: print(f'Checked {i} lines'), reached only when the loop
\* raised nothing, the final assertion, then close. reported records the
\* print.
PgenFinish(g) ==
    IF g.pc = "failed" THEN g
    ELSE IF PgenCountOk(g.i) THEN [g EXCEPT !.pc = "done", !.reported = TRUE]
    ELSE [g EXCEPT !.pc = "failed", !.err = "count", !.reported = TRUE]

\* Lines 121-131, one data_sock.recv of collect(): a chunk of 1..MaxRecv
\* bytes and the check of the buffer it completes, or the empty chunk once
\* the device has closed the connection, the residual and the final
\* assertion. rx counts the bytes received.
PgenPcapRecv ==
    /\ gpcap.pc = "recv"
    /\ \/ /\ stream # <<>>
          /\ \E n \in 1..Min(Len(stream), MaxRecv) :
               LET r == CollectStep(gpcap.acc, Take(stream, n), 0)
                   g == [gpcap EXCEPT !.acc = r.acc, !.rx = @ + n]
               IN /\ stream' = Drop(stream, n)
                  /\ gpcap' = IF r.out # <<>> THEN PgenCheck(g, r.out[1]) ELSE g
       \/ /\ stream = <<>>
          /\ dev.closed
          /\ stream' = stream
          /\ LET out == CollectEnd(gpcap.acc)
                 g == [gpcap EXCEPT !.acc = <<>>]
             IN gpcap' = PgenFinish(IF out # <<>> THEN PgenCheck(g, out[1])
                                    ELSE g)
    /\ UNCHANGED << pgen, gmain, dev >>
    /\ PgenFrame

\* -------------------------------------------------------- pgen.py: main
\* Lines 153-160: time.sleep(1), connect, ENABLE.put('ZERO'),
\* ENABLE.put('ONE'). The sleep orders nothing.
PgenMainEnable ==
    /\ gmain = "start"
    /\ gmain' = "join"
    /\ dev' = [dev EXCEPT !.enabled = TRUE]
    /\ UNCHANGED << pgen, gpcap, stream >>
    /\ PgenFrame

\* Lines 161-162: proc.join() for both processes.
PgenMainJoin ==
    /\ gmain = "join"
    /\ Ended(pgen.pc)
    /\ Ended(gpcap.pc)
    /\ gmain' = "joined"
    /\ UNCHANGED << pgen, gpcap, dev, stream >>
    /\ PgenFrame

\* Lines 164-169: while pgen.ACTIVE.get(): sleep; OUT.get(); close.
PgenMainActive ==
    /\ gmain = "joined"
    /\ ~DevActive(dev)
    /\ gmain' = "done"
    /\ UNCHANGED << pgen, gpcap, dev, stream >>
    /\ PgenFrame

\* ------------------------------------------------------- device: PGEN
PgenDevEmit ==
    /\ dev.kind = "PGEN"
    /\ dev.enabled
    /\ dev.queue # <<>>
    /\ LET word == Head(dev.queue) IN
         DevPlay(DevWords(dev, word, BigMask32(BigAdd(word, 1))))
    /\ UNCHANGED pgenVars
    /\ PgenFrame

\* ------------------------------- panda.py: prepare_table_command, base 64
\* The bytes of a uint32 array, as b64encode reads them from its buffer.
ToBytes(ws) ==
    [k \in 1..(4 * Len(ws)) |-> LEBytes(ws[((k - 1) \div 4) + 1])[((k - 1) % 4) + 1]]

\* The pad character '=' of base 64; the characters of the alphabet
\* A-Z a-z 0-9 + / are written as their 6-bit values 0..63.
Pad == 64

\* base64.b64encode: three bytes make four characters, the last group is
\* padded with '='.
B64Encode(bytes) ==
    LET n == Len(bytes)
        at(i) == IF i <= n THEN bytes[i] ELSE 0
        char(g, c) ==
            LET b0 == at(3 * g + 1)
                b1 == at(3 * g + 2)
                b2 == at(3 * g + 3)
            IN CASE c = 0 -> b0 \div 4
                 [] c = 1 -> (b0 % 4) * 16 + (b1 \div 16)
                 [] c = 2 -> IF 3 * g + 2 > n THEN Pad
                             ELSE (b1 % 16) * 4 + (b2 \div 64)
                 [] c = 3 -> IF 3 * g + 3 > n THEN Pad ELSE b2 % 64
    IN [k \in 1..(4 * ((n + 2) \div 3)) |-> char((k - 1) \div 4, (k - 1) % 4)]

\* base64.b64decode, the reader's side: four characters make three bytes,
\* less one for every pad character.
B64Decode(chars) ==
    LET m == Len(chars)
        pads == IF m = 0 THEN 0
                ELSE IF chars[m - 1] = Pad THEN 2
                ELSE IF chars[m] = Pad THEN 1 ELSE 0
        val(i) == IF chars[i] = Pad THEN 0 ELSE chars[i]
        byte(g, c) ==
            LET c0 == val(4 * g + 1)
                c1 == val(4 * g + 2)
                c2 == val(4 * g + 3)
                c3 == val(4 * g + 4)
            IN CASE c = 0 -> c0 * 4 + (c1 \div 16)
                 [] c = 1 -> (c1 % 16) * 16 + (c2 \div 4)
                 [] c = 2 -> (c2 % 4) * 64 + c3
    IN [k \in 1..(3 * (m \div 4) - pads) |-> byte((k - 1) \div 3, (k - 1) % 3)]

\* A slice that takes one element too many.
ChunkInclusive(content, j) ==
    SubSeq(content, ChunkSize * (j - 1) + 1, Min(ChunkSize * j + 1, Len(content)))

\* Line 102: content[i:i+chunk_size] for the j-th i of range(0, len(content),
\* chunk_size); the slice counts elements of the array.
Chunk(content, j) ==
    SubSeq(content, ChunkSize * (j - 1) + 1, Min(ChunkSize * j, Len(content)))

\* Line 101: the number of values of range(0, len(content), chunk_size).
NChunks(content) == (Len(content) + ChunkSize - 1) \div ChunkSize

\* Lines 98, 103: the open line name + suffix + 'B', and the empty line.
OpenLine(suffix) == [open |-> suffix]

EmptyLine == <<>>

\* prepare_table_command: the open line, one base-64 line per chunk, and the
\* empty line.
PrepareTableCommand(content, streaming, last) ==
    << OpenLine(Suffix(streaming, last)) >>
       \o [j \in 1..NChunks(content) |-> B64Encode(ToBytes(Chunk(content, j)))]
       \o << EmptyLine >>

\* Lengths of content: 0, 1, the 4 words of one sequencer line, and around
\* the chunk boundaries one less than, exactly, and one more than
\* 1..MaxChunks chunks.
TableLens ==
    {0, 1, 4} \cup { c * ChunkSize + d : c \in 1..MaxChunks, d \in {-1, 0, 1} }

\* Arrays of n uint32 words: what handle_pgen builds from a start number,
\* and the table lines of data_producer for val = 63.
PgenWords(start, n) == [k \in 1..n |-> BigMask32(BigAdd(start, k - 1))]

SeqWords(n) == [k \in 1..n |-> BigOf(ProducerLine(63)[((k - 1) % 4) + 1])]

TableContents ==
    UNION { { PgenWords(start, n) : start \in StartNumbers } \cup { SeqWords(n) } :
            n \in TableLens }

\* A call prepare_table_command(name, content, streaming, last). The
\* injectors pass streaming = (nblocks > 1) and last = (i == nblocks - 1):
\* the only table of a one-block run goes with streaming False, last True.
TableInit ==
    /\ \E content \in TableContents, streaming \in BOOLEAN, last \in BOOLEAN :
         enc = [pc |-> "call", content |-> content, streaming |-> streaming,
                last |-> last, commands |-> <<>>, k |-> 0, decoded |-> <<>>]
    /\ col = [pc |-> "off"]
    /\ ctl = [pc |-> "off"]
    /\ nav = [pc |-> "off"]
    /\ args = [run |-> "none"]
    /\ fault = "none"
    /\ dev = DevInit("none")
    /\ stream = <<>>
    /\ SeqOff
    /\ PgenOff

LibFrame == UNCHANGED << args, fault, seqVars, pgenVars, dev, stream >>

\* The call returns the command lines.
TablePrepare ==
    /\ enc.pc = "call"
    /\ enc' = [enc EXCEPT !.pc = "read", !.k = 1,
                 !.commands = PrepareTableCommand(enc.content, enc.streaming,
                                                  enc.last)]
    /\ UNCHANGED << col, ctl, nav >>
    /\ LibFrame

\* The reader takes the next line after the open line: a data line is
\* decoded and its bytes appended, the empty line ends the table.
TableRead ==
    /\ enc.pc = "read"
    /\ LET line == enc.commands[enc.k + 1] IN
         enc' = IF line = EmptyLine THEN [enc EXCEPT !.pc = "done", !.k = @ + 1]
                ELSE [enc EXCEPT !.k = @ + 1,
                                 !.decoded = @ \o B64Decode(line)]
    /\ UNCHANGED << col, ctl, nav >>
    /\ LibFrame

TableNext == TablePrepare \/ TableRead

SpecTable == TableInit /\ [][TableNext]_vars

\* ------------------------------------------------- panda.py: collect
\* collect(nbytes): nbytes=None (written 0) as handle_pcap of pgen calls it,
\* or lines_per_block * 4 as handle_pcap of seq does.
CollectModes == {0} \cup { 4 * l : l \in 1..MaxLines }

\* The bytes the peer sends before it closes, each byte different from its
\* neighbours.
CollectStreams == { [k \in 1..n |-> k] : n \in 0..MaxStream }

\* A run of the generator, consumed to its end: rest is what the peer has
\* still to send, got what the socket has returned, out the buffers yielded,
\* tail the number of buffers yielded after the peer closed.
CollectInit ==
    /\ \E nbytes \in CollectModes, bytes \in CollectStreams :
         col = [pc |-> "recv", nbytes |-> nbytes, rest |-> bytes, acc |-> <<>>,
                got |-> <<>>, out |-> <<>>, tail |-> 0]
    /\ enc = [pc |-> "off"]
    /\ ctl = [pc |-> "off"]
    /\ nav = [pc |-> "off"]
    /\ args = [run |-> "none"]
    /\ fault = "none"
    /\ dev = DevInit("none")
    /\ stream = <<>>
    /\ SeqOff
    /\ PgenOff

\* Lines 124-136: data_sock.recv(1 << 17) returns between 1 and 131072 of
\* the bytes still to come; the buffer is extended and may be yielded.
CollectRecv ==
    /\ col.pc = "recv"
    /\ col.rest # <<>>
    /\ \E n \in 1..Min(Len(col.rest), RecvSize) :
         LET chunk == Take(col.rest, n)
             r == CollectStep(col.acc, chunk, col.nbytes)
         IN col' = [col EXCEPT !.rest = Drop(col.rest, n), !.acc = r.acc,
                               !.got = @ \o chunk, !.out = @ \o r.out]
    /\ UNCHANGED << enc, ctl, nav >>
    /\ LibFrame

\* Lines 125-126, 138-140: recv returns b'' once the peer has closed; the
\* residual is yielded and the generator ends.
CollectClose ==
    /\ col.pc = "recv"
    /\ col.rest = <<>>
    /\ LET last == CollectEnd(col.acc) IN
         col' = [col EXCEPT !.pc = "done", !.out = @ \o last,
                            !.tail = Len(last)]
    /\ UNCHANGED << enc, ctl, nav >>
    /\ LibFrame

CollectNext == CollectRecv \/ CollectClose

SpecCollect == CollectInit /\ [][CollectNext]_vars

\* ------------------------------------- panda.py: recv, Item.get, Item.put
\* Bytes on the control connection are written as one-character strings.
\* The value of a decimal digit; its domain is the set of the digits.
DigitVal ==
    [c \in {"0", "1", "2", "3", "4", "5", "6", "7", "8", "9"} |->
        CASE c = "0" -> 0 [] c = "1" -> 1 [] c = "2" -> 2 [] c = "3" -> 3
          [] c = "4" -> 4 [] c = "5" -> 5 [] c = "6" -> 6 [] c = "7" -> 7
          [] c = "8" -> 8 [] c = "9" -> 9]

\* s.startswith(p), s.endswith(p)
StartsWith(s, p) == Len(s) >= Len(p) /\ SubSeq(s, 1, Len(p)) = p

EndsWith(s, p) ==
    Len(s) >= Len(p) /\ SubSeq(s, Len(s) - Len(p) + 1, Len(s)) = p

\* s.find(c) + 1: the first position of c in s, 0 when there is none
\* (c in s is Find(s, c) # 0).
Find(s, c) ==
    IF \E k \in 1..Len(s) : s[k] = c
    THEN CHOOSE k \in 1..Len(s) : s[k] = c /\ \A j \in 1..(k - 1) : s[j] # c
    ELSE 0

\* s.split(c, 1)[0] and s.split(c, 1)[1], for c in s.
BeforeFirst(s, c) == SubSeq(s, 1, Find(s, c) - 1)

AfterFirst(s, c) == SubSeq(s, Find(s, c) + 1, Len(s))

\* s.split(c): the pieces between the occurrences of c.
RECURSIVE SplitOn(_, _)
SplitOn(s, c) ==
    IF Find(s, c) = 0 THEN << s >>
    ELSE << BeforeFirst(s, c) >> \o SplitOn(AfterFirst(s, c), c)

\* s.strip(): s from its first to its last character that is no ASCII
\* whitespace.
Strip(s) ==
    LET solid == { k \in 1..Len(s) : s[k] \notin {" ", "\n", "\t", "\r"} } IN
    IF solid = {} THEN <<>>
    ELSE SubSeq(s, CHOOSE k \in solid : \A j \in solid : k <= j,
                   CHOOSE k \in solid : \A j \in solid : k >= j)

\* s.split(): the runs of s that hold no ASCII whitespace.
RECURSIVE SplitWs(_)
SplitWs(s) ==
    LET space(k) == s[k] \in {" ", "\n", "\t", "\r"}
        solid == { k \in 1..Len(s) : ~space(k) }
        first == CHOOSE k \in solid : \A j \in solid : k <= j
        ends == { k \in first..Len(s) : k = Len(s) \/ space(k + 1) }
        last == CHOOSE k \in ends : \A j \in ends : k <= j
    IN IF solid = {} THEN <<>>
       ELSE << SubSeq(s, first, last) >> \o SplitWs(SubSeq(s, last + 1, Len(s)))

\* val.isdigit()
IsDigit(s) == s # <<>> /\ \A k \in 1..Len(s) : s[k] \in DOMAIN DigitVal

\* The number a run of digits writes.
RECURSIVE DigitsVal(_)
DigitsVal(s) ==
    IF s = <<>> THEN 0
    ELSE 10 * DigitsVal(SubSeq(s, 1, Len(s) - 1)) + DigitVal[s[Len(s)]]

\* int(s) raises nothing: whitespace, a sign, digits, whitespace.
IsIntLiteral(s) ==
    LET t == Strip(s)
        u == IF t # <<>> /\ Head(t) \in {"-", "+"} THEN Tail(t) ELSE t
    IN IsDigit(u)

\* int(s)
IntOf(s) ==
    LET t == Strip(s)
        u == IF t # <<>> /\ Head(t) \in {"-", "+"} THEN Tail(t) ELSE t
    IN IF t # <<>> /\ Head(t) = "-" THEN -DigitsVal(u) ELSE DigitsVal(u)

\* float(s) raises nothing: whitespace, a sign, digits with at most one
\* point among them, whitespace (exponents, inf and nan need letters that
\* no response of the model holds).
IsFloatLiteral(s) ==
    LET t == Strip(s)
        u == IF t # <<>> /\ Head(t) \in {"-", "+"} THEN Tail(t) ELSE t
        d == SelectSeq(u, LAMBDA c : c # ".")
    IN IsDigit(d) /\ Len(u) - Len(d) <= 1

\* float(s), as num / 10^exp in lowest terms.
FloatOf(s) ==
    LET t == Strip(s)
        u == IF t # <<>> /\ Head(t) \in {"-", "+"} THEN Tail(t) ELSE t
        x == DigitsVal(SelectSeq(u, LAMBDA c : c # "."))
        k == IF Find(u, ".") = 0 THEN 0 ELSE Len(u) - Find(u, ".")
        j == CHOOSE j \in 0..k :
                 x % (10 ^ j) = 0 /\ (j = k \/ x % (10 ^ (j + 1)) # 0)
    IN [num |-> IF t # <<>> /\ Head(t) = "-" THEN -(x \div (10 ^ j))
                ELSE x \div (10 ^ j),
        exp |-> k - j]

\* What Item.get returns or raises: kind is "raise" (exc names the
\* exception), "list" (items), "int" (num), "float" (num / 10^exp) or "str"
\* (text); text is the value as the response spells it. "none": nothing yet.
Value(kind, exc, items, num, exp, text) ==
    [kind |-> kind, exc |-> exc, items |-> items, num |-> num, exp |-> exp,
     text |-> text]

\* A get that takes an error response for a value.
GetValueNoErr(result) ==
    IF StartsWith(result, << "!" >>)
    THEN LET w == SplitWs(result)
             items == SubSeq(w, 1, Len(w) - 1)
         IN IF \A k \in 1..Len(items) : IsIntLiteral(Drop(items[k], 1))
            THEN Value("list", "", [k \in 1..Len(items) |->
                                       IntOf(Drop(items[k], 1))], 0, 0, <<>>)
            ELSE Value("raise", "ValueError", <<>>, 0, 0, <<>>)
    ELSE IF Find(result, "=") = 0
    THEN Value("raise", "ValueError", <<>>, 0, 0, <<>>)
    ELSE LET val == Strip(AfterFirst(result, "=")) IN
         IF IsDigit(val) THEN Value("int", "", <<>>, DigitsVal(val), 0, val)
         ELSE IF IsFloatLiteral(val)
         THEN Value("float", "", <<>>, FloatOf(val).num, FloatOf(val).exp, val)
         ELSE Value("str", "", <<>>, 0, 0, val)

\* Lines 181-195 of Item.get: what the accumulated response makes it return
\* or raise. Line 184 is [int(i[1:]) for i in result.split()[:-1]], lines
\* 189-195 take the value after the first '=' as int, float or str.
GetValue(result) ==
    IF StartsWith(result, << "E", "R", "R" >>)
    THEN Value("raise", "ValueError", <<>>, 0, 0, <<>>)
    ELSE IF StartsWith(result, << "!" >>)
    THEN LET w == SplitWs(result)
             items == SubSeq(w, 1, Len(w) - 1)
         IN IF \A k \in 1..Len(items) : IsIntLiteral(Drop(items[k], 1))
            THEN Value("list", "", [k \in 1..Len(items) |->
                                       IntOf(Drop(items[k], 1))], 0, 0, <<>>)
            ELSE Value("raise", "ValueError", <<>>, 0, 0, <<>>)
    ELSE IF Find(result, "=") = 0
    THEN Value("raise", "ValueError", <<>>, 0, 0, <<>>)
    ELSE LET val == Strip(AfterFirst(result, "=")) IN
         IF IsDigit(val) THEN Value("int", "", <<>>, DigitsVal(val), 0, val)
         ELSE IF IsFloatLiteral(val)
         THEN Value("float", "", <<>>, FloatOf(val).num, FloatOf(val).exp, val)
         ELSE Value("str", "", <<>>, 0, 0, val)

\* A put that takes every response but an error for an acknowledgement.
PutNotErr(result) == ~StartsWith(result, << "E", "R", "R" >>)

\* Line 205 of Item.put: result.startswith(b'OK')
PutOk(result) == StartsWith(result, << "O", "K" >>)

\* Lines 58-68 of fetch_metadata: fields holds the names of the lines with
\* an '=' (each without the first character of its line), capture_fields
\* those of them that hold '.CAPTURE', instances what is in front of the
\* first point of each.
MetaParse(result) ==
    LET lines == SplitOn(result, "\n")
        kept == SelectSeq(lines, LAMBDA l : Find(l, "=") # 0)
        fields == [k \in 1..Len(kept) |-> Drop(BeforeFirst(kept[k], "="), 1)]
        mark == << ".", "C", "A", "P", "T", "U", "R", "E" >>
        capture(f) == \E k \in 0..(Len(f) - Len(mark)) :
                          SubSeq(f, k + 1, k + Len(mark)) = mark
    IN [fields |-> fields,
        capture_fields |-> SelectSeq(fields, capture),
        instances |-> { SplitOn(fields[k], ".")[1] : k \in 1..Len(fields) }]

\* Every text of up to n elements of chars.
Texts(chars, n) == UNION { [1..k -> chars] : k \in 0..n }

\* A multi-line response: every item on a line of its own after a '!', then
\* the line that holds only '.'.
RECURSIVE MultiLine(_)
MultiLine(items) ==
    IF items = <<>> THEN << ".", "\n" >>
    ELSE << "!" >> \o Head(items) \o << "\n" >> \o MultiLine(Tail(items))

\* The calls and what the device answers. To a get: an error, with or
\* without an '=' in its message, a bare OK, a value of up to MaxVal
\* characters over a digit, the sign, the point, a letter and '=', or up to
\* MaxItems lines that hold an integer or a label ending in a point. To a
\* put, of a scalar or of an array: OK, an error, or a response of another
\* shape. To *CHANGES?: up to MaxItems entries, each a field and its value,
\* a capture field whose value ends in a point, or a table field.
CtlCalls ==
    LET scalar(v) == << "O", "K", " ", "=" >> \o v \o << "\n" >>
        ok == << "O", "K", "\n" >>
        err == << "E", "R", "R", " ", "A", "\n" >>
        gets == { err, << "E", "R", "R", " ", "A", "=", "5", "\n" >>, ok }
                  \cup { scalar(v) : v \in Texts({"5", "-", ".", "A", "="}, MaxVal) }
                  \cup { MultiLine(items) :
                           items \in Texts({ << "5" >>, << "-", "5" >>,
                                             << "A", "." >> }, MaxItems) }
        puts == { ok, err, scalar(<< "5" >>), << ".", "\n" >>,
                  MultiLine(<< << "5" >> >>) }
        metas == { MultiLine(items) :
                     items \in Texts({ << "A", ".", "B", "=", "5" >>,
                                       << "A", ".", "C", "A", "P", "T", "U",
                                          "R", "E", "=", "A", "." >>,
                                       << "B", "<" >> }, MaxItems) }
        arrays == { PgenWords(BigOf(0), n) : n \in {1, ChunkSize + 1} }
    IN { [op |-> "get", content |-> <<>>, resp |-> r] : r \in gets }
         \cup { [op |-> "put", content |-> <<>>, resp |-> r] : r \in puts }
         \cup { [op |-> "put_array", content |-> c, resp |-> r] :
                  c \in arrays, r \in puts }
         \cup { [op |-> "fetch_metadata", content |-> <<>>, resp |-> r] :
                  r \in metas }

\* One call on a PandaClient: connect() with its fetch_metadata, or get or
\* put of an Item of a connected client. resp is what the device answers,
\* pend the bytes of it not yet sent, sock the bytes that have arrived and
\* are not yet read, closed whether the peer has closed the connection;
\* result is the bytearray of recv, total the result of get or
\* fetch_metadata, chunks the number of times recv has returned, wait the
\* seconds the pending sock.recv has been blocked, eofs the number of times
\* sock.recv has returned b'', connects the number of connect() calls made
\* on the client.
CtlInit ==
    /\ \E c \in CtlCalls :
         ctl = [pc |-> IF c.op = "fetch_metadata" THEN "connect" ELSE "send",
                op |-> c.op, content |-> c.content, resp |-> c.resp,
                pend |-> c.resp, sock |-> <<>>, closed |-> FALSE,
                sent |-> <<>>, result |-> <<>>, total |-> <<>>,
                chunks |-> 0, multi |-> FALSE, wait |-> 0, eofs |-> 0,
                ret |-> Value("none", "", <<>>, 0, 0, <<>>), exc |-> "",
                fields |-> <<>>, capture_fields |-> <<>>, instances |-> {},
                connects |-> 1]
    /\ enc = [pc |-> "off"]
    /\ col = [pc |-> "off"]
    /\ nav = [pc |-> "off"]
    /\ args = [run |-> "none"]
    /\ fault = "none"
    /\ dev = DevInit("none")
    /\ stream = <<>>
    /\ SeqOff
    /\ PgenOff

\* Lines 22-26: the socket is given its timeout and connects, or connect
\* raises.
CtlConnect ==
    /\ ctl.pc = "connect"
    /\ \/ ctl' = [ctl EXCEPT !.pc = "send"]
       \/ ctl' = [ctl EXCEPT !.pc = "raised", !.exc = "connect"]
    /\ UNCHANGED << enc, col, nav >>
    /\ LibFrame

\* Lines 70-76: the lines of the command are sent; sent records them.
\* Item.put of an array goes through put_table(name, content), streaming
\* and last left at their defaults.
CtlSend ==
    /\ ctl.pc = "send"
    /\ ctl' = [ctl EXCEPT
                 !.pc = "recv",
                 !.sent = CASE ctl.op = "get" -> << "?" >>
                            [] ctl.op = "put" -> << "=" >>
                            [] ctl.op = "put_array" ->
                                 PrepareTableCommand(ctl.content, FALSE, FALSE)
                            [] ctl.op = "fetch_metadata" -> << "*CHANGES?" >>]
    /\ UNCHANGED << enc, col, nav >>
    /\ LibFrame

\* The device: some more bytes of its response arrive.
CtlDevReply ==
    /\ ctl.pc = "recv"
    /\ ~ctl.closed
    /\ ctl.pend # <<>>
    /\ \E n \in 1..Len(ctl.pend) :
         ctl' = [ctl EXCEPT !.sock = @ \o Take(ctl.pend, n),
                            !.pend = Drop(ctl.pend, n)]
    /\ UNCHANGED << enc, col, nav >>
    /\ LibFrame

\* The device closes the connection before its response is complete.
CtlDevClose ==
    /\ ctl.pc = "recv"
    /\ ~ctl.closed
    /\ ctl.pend # <<>>
    /\ ctl' = [ctl EXCEPT !.closed = TRUE, !.pend = <<>>]
    /\ UNCHANGED << enc, col, nav >>
    /\ LibFrame

\* Lines 171-197 of Item.get, 199-206 of Item.put and 49-68 of
\* fetch_metadata, from the point where recv() has returned chunk.
CtlReturned(c, chunk) ==
    LET total == c.total \o chunk
        multi == IF c.chunks = 0 THEN StartsWith(chunk, << "!" >>) ELSE c.multi
        d == [c EXCEPT !.result = <<>>, !.total = total, !.multi = multi,
                       !.chunks = @ + 1, !.wait = 0]
    IN CASE c.op = "get" ->
              IF multi /\ ~EndsWith(chunk, << ".", "\n" >>) THEN d
              ELSE LET v == GetValue(total) IN
                   IF v.kind = "raise"
                   THEN [d EXCEPT !.pc = "raised", !.exc = v.exc, !.ret = v]
                   ELSE [d EXCEPT !.pc = "done", !.ret = v]
         [] c.op \in {"put", "put_array"} ->
              IF PutOk(chunk) THEN [d EXCEPT !.pc = "done"]
              ELSE [d EXCEPT !.pc = "raised", !.exc = "ValueError"]
         [] c.op = "fetch_metadata" ->
              IF ~EndsWith(chunk, << ".", "\n" >>) THEN d
              ELSE [d EXCEPT !.pc = "done",
                             !.capture_fields = MetaParse(total).capture_fields,
                             !.fields = @ \o MetaParse(total).fields,
                             !.instances = @ \cup MetaParse(total).instances]

\* Lines 80-83, one sock.recv(4096) that finds bytes: result is extended
\* and recv returns once it ends with a newline.
CtlRecv ==
    /\ ctl.pc = "recv"
    /\ ctl.sock # <<>>
    /\ LET data == Take(ctl.sock, CtlRecvSize)
           c == [ctl EXCEPT !.sock = Drop(ctl.sock, CtlRecvSize)]
           result == ctl.result \o data
       IN ctl' = IF EndsWith(result, << "\n" >>) THEN CtlReturned(c, result)
                 ELSE [c EXCEPT !.result = result, !.wait = 0]
    /\ UNCHANGED << enc, col, nav >>
    /\ LibFrame

\* Line 81, sock.recv(4096) after the peer has closed: it returns b'',
\* result is as it was and the loop goes round again.
CtlRecvEof ==
    /\ ctl.pc = "recv"
    /\ ctl.sock = <<>>
    /\ ctl.closed
    /\ ctl.eofs < MaxEofs
    /\ ctl' = [ctl EXCEPT !.eofs = @ + 1]
    /\ UNCHANGED << enc, col, nav >>
    /\ LibFrame

\* A second goes by while sock.recv is blocked.
CtlTick ==
    /\ ctl.pc = "recv"
    /\ ctl.sock = <<>>
    /\ ~ctl.closed
    /\ ctl.wait < TIMEOUT
    /\ ctl' = [ctl EXCEPT !.wait = @ + 1]
    /\ UNCHANGED << enc, col, nav >>
    /\ LibFrame

\* Lines 23 and 81: the timeout set before connect stays on the socket, and
\* sock.recv raises socket.timeout after TIMEOUT seconds without a byte.
CtlTimeout ==
    /\ ctl.pc = "recv"
    /\ ctl.sock = <<>>
    /\ ~ctl.closed
    /\ ctl.wait = TIMEOUT
    /\ ctl' = [ctl EXCEPT !.pc = "raised", !.exc = "timeout"]
    /\ UNCHANGED << enc, col, nav >>
    /\ LibFrame

\* Lines 21-27 again: connect() called once more on a client whose
\* connect() has returned. The socket is a new one, fields, capture_fields
\* and instances are those of the object; on the new connection the device
\* reports what it reported before, or no field at all.
CtlReconnect ==
    /\ ctl.pc = "done"
    /\ ctl.op = "fetch_metadata"
    /\ ctl.connects < MaxConnects
    /\ \E r \in { ctl.resp, MultiLine(<<>>) } :
         ctl' = [ctl EXCEPT !.pc = "connect", !.resp = r, !.pend = r,
                            !.sock = <<>>, !.closed = FALSE, !.sent = <<>>,
                            !.result = <<>>, !.total = <<>>, !.chunks = 0,
                            !.multi = FALSE, !.wait = 0, !.eofs = 0,
                            !.connects = @ + 1]
    /\ UNCHANGED << enc, col, nav >>
    /\ LibFrame

CtlNext ==
    \/ CtlConnect
    \/ CtlReconnect
    \/ CtlSend
    \/ CtlDevReply
    \/ CtlDevClose
    \/ CtlRecv
    \/ CtlRecvEof
    \/ CtlTick
    \/ CtlTimeout

\* Calls on the control connection.
SpecCtl == CtlInit /\ [][CtlNext]_vars

\* --------------------------- panda.py: __getitem__, __getattr__ of paths
\* str.upper(), over the letters the paths of the model are written with.
Upper(s) ==
    [k \in 1..Len(s) |->
        CASE s[k] = "a" -> "A" [] s[k] = "b" -> "B" [] s[k] = "c" -> "C"
          [] OTHER -> s[k]]

\* str.isupper(): s holds a letter and no lower-case letter.
IsUpper(s) ==
    /\ \E k \in 1..Len(s) : s[k] \in {"A", "B", "C", "a", "b", "c"}
    /\ \A k \in 1..Len(s) : s[k] \notin {"a", "b", "c"}

\* The resolution of a path: path is a string the caller wrote, of up to
\* MaxPath characters over a lower-case letter, an upper-case letter, a
\* digit and the point, or what get_first_instance_name(block) returned
\* (lines 29-33: the first of the sorted instances that starts with block,
\* '' when none does; the instances of the model are told apart by their
\* first character, so at most one starts with block). rest is the part of
\* the path still to resolve, cur the path of the Item reached, ret what
\* the resolution has returned (an Item, or None) and exc what it raised.
NavInit ==
    /\ \/ \E p \in Texts({"a", "B", "1", "."}, MaxPath) :
            nav = [pc |-> "client", src |-> "text", path |-> p, rest |-> <<>>,
                   cur |-> <<>>, ret |-> "", exc |-> ""]
       \/ \E instances \in SUBSET { << "B", "1" >>, << "1", "B" >> },
             block \in { << "B" >>, << "1" >>, << "A" >> } :
            LET found == { i \in instances : StartsWith(i, block) } IN
            nav = [pc |-> "client", src |-> "get_first_instance_name",
                   path |-> IF found = {} THEN <<>> ELSE CHOOSE i \in found : TRUE,
                   rest |-> <<>>, cur |-> <<>>, ret |-> "", exc |-> ""]
    /\ enc = [pc |-> "off"]
    /\ col = [pc |-> "off"]
    /\ ctl = [pc |-> "off"]
    /\ args = [run |-> "none"]
    /\ fault = "none"
    /\ dev = DevInit("none")
    /\ stream = <<>>
    /\ SeqOff
    /\ PgenOff

\* Lines 142-152, client[path]: the path is upper-cased; the name in front
\* of its first point, or all of it when it has none, goes to __getattr__,
\* which returns an Item for a name that isupper() and otherwise falls off
\* its end and returns None; what follows the point is looked up in the
\* result, and None[...] raises TypeError.
NavClient ==
    /\ nav.pc = "client"
    /\ LET item == Upper(nav.path)
           dotted == Find(item, ".") # 0
           name == IF dotted THEN BeforeFirst(item, ".") ELSE item
       IN nav' = IF ~dotted
                 THEN [nav EXCEPT !.pc = "done", !.cur = name,
                                  !.ret = IF IsUpper(name) THEN "Item" ELSE "None"]
                 ELSE IF IsUpper(name)
                 THEN [nav EXCEPT !.pc = "item", !.cur = name,
                                  !.rest = AfterFirst(item, ".")]
                 ELSE [nav EXCEPT !.pc = "raised", !.exc = "TypeError"]
    /\ UNCHANGED << enc, col, ctl >>
    /\ LibFrame

\* Lines 160-169, item[rest]: rest is upper-cased; the name in front of its
\* first point, or all of it, goes to __getattr__ of the Item, which
\* returns Item(f'{self.path}.{name}') for every name.
NavItem ==
    /\ nav.pc = "item"
    /\ LET item == Upper(nav.rest)
           dotted == Find(item, ".") # 0
           name == IF dotted THEN BeforeFirst(item, ".") ELSE item
       IN nav' = IF dotted
                 THEN [nav EXCEPT !.cur = @ \o << "." >> \o name,
                                  !.rest = AfterFirst(item, ".")]
                 ELSE [nav EXCEPT !.pc = "done", !.ret = "Item",
                                  !.cur = @ \o << "." >> \o name,
                                  !.rest = <<>>]
    /\ UNCHANGED << enc, col, ctl >>
    /\ LibFrame

NavNext == NavClient \/ NavItem

\* Resolutions of paths.
SpecNav == NavInit /\ [][NavNext]_vars

\* ------------------------------------------------------- specifications
\* A step of a producer, Produce(p), in the runs whose draws are among
\* Draws.
SeqProducers ==
    \E p \in DOMAIN prod :
        \E vals \in [1..args.lines_per_block -> Draws] : ProduceVals(p, vals)

SeqInjector ==
    \/ SeqSetup
    \/ SeqGet
    \/ SeqPutExpect
    \/ SeqPutTable
    \/ SeqSetEvent
    \/ SeqPoll

SeqCapture ==
    \/ PcapArm
    \/ PcapRecv
    \/ PcapPut
    \/ PcapSentinel
    \/ PcapAssert

SeqChecker(w) ==
    \/ CheckerAcquire(w)
    \/ CheckerGet(w)
    \/ CheckerExpect(w)
    \/ CheckerCompare(w)

SeqMain ==
    \/ MainWait
    \/ MainEnable
    \/ MainJoin
    \/ MainActive

SeqNext ==
    \/ SeqProducers
    \/ SeqInjector
    \/ SeqCapture
    \/ \E w \in DOMAIN chk : SeqChecker(w)
    \/ SeqMain
    \/ SeqDevEmit

\* The seq pipeline, every process of it.
SpecSeq == SeqInit /\ [][SeqNext]_vars

PgenNext ==
    \/ PgenSetup
    \/ PgenPutTable
    \/ PgenPoll
    \/ PgenPcapArm
    \/ PgenPcapRecv
    \/ PgenMainEnable
    \/ PgenMainJoin
    \/ PgenMainActive
    \/ PgenDevEmit

\* The pgen pipeline, every process of it.
SpecPgen == PgenInit /\ [][PgenNext]_vars

\* The injection side of seq (producer, injector, orchestrator and device,
\* which the capture reader and the checkers do not influence while expect_q
\* has room) in longer streaming sessions.
InjSeqInit == SeqInitWith(InjSeqArgsSet, {"none", "reject0", "reject1"})

InjSeqNext ==
    \/ SeqProducers
    \/ SeqInjector
    \/ MainWait
    \/ MainEnable
    \/ SeqDevEmit

\* The pgen pipeline on a device that replays the table: the run of one
\* block of 16 lines, played once and counted from 0, beside the streaming
\* runs.
SpecScenario ==
    /\ PgenInitWith({ [nblocks |-> 1, repeats |-> 1, lines_per_block |-> 16,
                       start_number |-> BigOf(0)] }
                       \cup { a \in PgenArgsSet : a.nblocks > 1 }, {"none"})
    /\ [][PgenNext]_vars

\* The checkers of both pipelines: seq runs with blocks of two lines, so that
\* a capture that ends early leaves a block shorter than its expected list,
\* and the pgen runs.
SpecCheck ==
    /\ \/ SeqInitWith({ a \in [nblocks : {1, 2}, repeats : {1},
                               producer_threads : {1}, checker_threads : {1},
                               max_blocks_queued : {1},
                               lines_per_block : {2}] : SeqArgsOk(a) },
                       Faults \ {"reject1"})
       \/ PgenInit
    /\ [][SeqNext \/ PgenNext]_vars

\* Two states of a run of seq.py --nblocks 17 --lines-per-block 1
\* --max-blocks-queued 1 with one producer and one checker worker, the blocks
\* before the last holding LowDraw and 63 - LowDraw in turn.
\* The first is the state of SeqInit reached by the producer alone: it has
\* put sixteen blocks and buffer_q is full; here the device rejects the
\* first upload.
\* The second is reached later in the run on the device that accepts every
\* upload, when neither the producer nor the checker worker has moved since:
\* sixteen blocks have been uploaded, played, captured and queued for the
\* checker, expect_q and checker_q are full, buffer_q is empty, and the
\* producer has still to draw and put the last block.
QueuesInit ==
    LET val(k) == IF k % 2 = 1 THEN LowDraw ELSE 63 - LowDraw
        worker == [pc |-> "acquire", nblock |-> None, data |-> <<>>,
                   expected |-> [seqno |-> None, vals |-> <<>>],
                   compared |-> 0, stops |-> 0]
        configured == DevPutTable(DevInit("SEQ"), <<>>, Suffix(FALSE, FALSE))
    IN
    /\ args = [nblocks |-> QueueSize + 1, repeats |-> 1, producer_threads |-> 1,
               checker_threads |-> 1, max_blocks_queued |-> 1,
               lines_per_block |-> 1]
    /\ prod = << QueueSize >>
    /\ chk = << worker >>
    /\ lock = 0
    /\ stream = <<>>
    /\ \/ /\ fault = "reject0"
          /\ buffer_q = [k \in 1..QueueSize |->
                           [content |-> << ProducerLine(val(k)) >>,
                            expected |-> << val(k) >>]]
          /\ expect_q = <<>>
          /\ checker_q = <<>>
          /\ produced = FALSE
          /\ seq = [pc |-> "setup", i |-> 0, content |-> <<>>,
                    expected |-> <<>>, result |-> "", polled |-> None,
                    acks |-> <<>>, opens |-> <<>>]
          /\ pcap = [pc |-> "arm", acc |-> <<>>, data |-> <<>>, checked |-> 0,
                     nblock |-> 0, sent |-> 0, eof |-> FALSE, rx |-> 0]
          /\ main = "wait"
          /\ dev = configured
       \/ /\ fault = "none"
          /\ buffer_q = <<>>
          /\ expect_q = [k \in 1..QueueSize |->
                           [seqno |-> k - 1, vals |-> << val(k) >>]]
          /\ checker_q = [k \in 1..QueueSize |->
                            [nblock |-> k - 1,
                             data |-> WordsToBytes(
                                 << CaptureWord(val(k), SeqOffsets) >>)]]
          /\ produced = TRUE
          /\ seq = [pc |-> "get", i |-> QueueSize,
                    content |-> << ProducerLine(val(QueueSize)) >>,
                    expected |-> << val(QueueSize) >>, result |-> "OK",
                    polled |-> 0,
                    acks |-> [k \in 1..QueueSize |-> "OK"],
                    opens |-> [k \in 1..QueueSize |-> Suffix(TRUE, FALSE)]]
          /\ pcap = [pc |-> "recv", acc |-> <<>>, data |-> <<>>,
                     checked |-> QueueSize, nblock |-> QueueSize, sent |-> 0,
                     eof |-> FALSE, rx |-> 4 * QueueSize]
          /\ main = "join"
          /\ dev = [configured EXCEPT !.enabled = TRUE, !.last = FALSE,
                                      !.emitted = QueueSize]
    /\ PgenOff
    /\ LibOff

\* A step of the seq pipeline; the producer draws each value with
\* random.randint(0, 63).
QueuesNext ==
    \/ \E p \in DOMAIN prod : Produce(p)
    \/ SeqInjector
    \/ SeqCapture
    \/ \E w \in DOMAIN chk : SeqChecker(w)
    \/ SeqMain
    \/ SeqDevEmit

\* The seq pipeline from those two states on.
SpecQueues == QueuesInit /\ [][QueuesNext]_vars

\* Streaming injection in both pipelines.
SpecInject == (InjSeqInit \/ PgenInit) /\ [][InjSeqNext \/ PgenNext]_vars

\* Every process of the seq run is scheduled again and again, and the
\* enabled device keeps playing its table: weak fairness of each.
SeqFairness ==
    /\ \A p \in 1..(MaxProducers + 1) : WF_vars(p \in DOMAIN prod /\ Produce(p))
    /\ WF_vars(SeqInjector)
    /\ WF_vars(SeqCapture)
    /\ \A w \in 1..(MaxCheckers + 1) : WF_vars(w \in DOMAIN chk /\ SeqChecker(w))
    /\ WF_vars(SeqMain)
    /\ WF_vars(SeqDevEmit)

\* The seq pipeline on a device that acknowledges every upload, plays every
\* line it was given and then closes the capture connection; the injector
\* waits for the queue to fall below one block.
FairSeqArgsSet == { a \in SeqArgsSet : a.max_blocks_queued = 1 }

FairSpecSeq ==
    SeqInitWith(FairSeqArgsSet, {"none"}) /\ [][SeqNext]_vars /\ SeqFairness

\* The same scheduling on a device that rejects the first or the second
\* upload, or corrupts the first captured word.
FailSpecSeq ==
    /\ SeqInitWith(FairSeqArgsSet, {"reject0", "reject1", "corrupt"})
    /\ [][SeqNext]_vars /\ SeqFairness

\* ------------------------------------------------------------- claims
SeqExpectedLines == args.lines_per_block * args.nblocks * args.repeats

\* C1: a worker that holds a captured block and an expected list holds the
\* k-th block put on checker_q together with the k-th list put on expect_q,
\* and no expected list is held by two workers or is both held and queued.
C1_BlockMeetsItsExpected ==
    /\ \A w \in DOMAIN chk :
         chk[w].expected.seqno # None => chk[w].nblock = chk[w].expected.seqno
    /\ \A w1, w2 \in DOMAIN chk :
         (w1 # w2 /\ chk[w1].expected.seqno # None)
            => chk[w1].expected.seqno # chk[w2].expected.seqno
    /\ \A w \in DOMAIN chk : \A k \in 1..Len(expect_q) :
         chk[w].expected.seqno < expect_q[k].seqno

\* Two workers compare at the same time, blocks of two producers.
C1_Witness ==
    /\ args.producer_threads = 2
    /\ \E w1, w2 \in DOMAIN chk :
         /\ chk[w1].pc = "compare" /\ chk[w1].nblock = 0
         /\ chk[w2].pc = "compare" /\ chk[w2].nblock = 1

\* C2: once handle_pcap has ended, it ended well exactly when the number of
\* 32-bit words received equals lines_per_block * nblocks * repeats.
C2_CountCheck ==
    Ended(pcap.pc) => (pcap.pc = "done" <=> pcap.rx \div 4 = SeqExpectedLines)

\* handle_pcap has failed on a surplus word.
C2_Witness == pcap.pc = "failed" /\ pcap.rx \div 4 > SeqExpectedLines

\* C3: a pgen run whose capture stream delivered exactly
\* lines_per_block * nblocks * repeats words, each accepted by the value
\* assertion, ends with the count check passing.
C3_ExactCountPasses ==
    ( /\ Ended(gpcap.pc)
      /\ gpcap.rx = 4 * args.lines_per_block * args.nblocks * args.repeats
      /\ gpcap.err \notin {"value", "buffer"} )
    => gpcap.pc = "done"

\* No data block follows a sentinel in checker_q.
SentinelsLast ==
    \A j, k \in 1..Len(checker_q) :
        (j < k /\ checker_q[j].nblock = None) => checker_q[k].nblock = None

\* handle_pcap puts sentinels only after the stream has ended, and exactly
\* checker_threads of them.
SentinelsSent ==
    /\ pcap.sent <= args.checker_threads
    /\ pcap.sent > 0 => pcap.eof
    /\ Ended(pcap.pc) => pcap.sent = args.checker_threads
    /\ SentinelsLast

\* C6: handle_pcap puts exactly checker_threads sentinels, all after the last
\* data block, and every checker worker takes exactly one sentinel and exits,
\* leaving checker_q empty.
C6_EveryWorkerTakesASentinel ==
    /\ []SentinelsSent
    /\ <>( /\ \A w \in DOMAIN chk : chk[w].pc = "done" /\ chk[w].stops = 1
           /\ checker_q = <<>> )

\* C7: the device is enabled, and the event set, only after handle_seq has
\* sent the first table block and read the reply to it.
C7_EnableAfterFirstBlock ==
    /\ dev.enabled => Len(seq.acks) >= 1
    /\ produced => Len(seq.acks) >= 1
    /\ main # "wait" => produced

\* The device is enabled while the injector is in its first backpressure wait.
C7_Witness == dev.enabled /\ seq.pc = "poll" /\ seq.i = 0

\* C8: the device is enabled only if the first table block was acknowledged
\* with OK.
C8_EnableOnlyIfAccepted ==
    dev.enabled => (Len(seq.acks) >= 1 /\ seq.acks[1] = "OK")

\* C9: the pgen orchestrator has sent ENABLE=ONE only if handle_pgen has
\* uploaded the first table block.
C9_PgenEnableAfterFirstBlock ==
    gmain \in {"join", "joined", "done"} => Len(pgen.acks) >= 1

\* C10: an injector about to send block i + 1 of a streaming session has
\* polled QUEUED_LINES since it sent block i, and its most recent poll was at
\* or below the limit.
C10_SendsOnlyBelowLimit ==
    /\ (seq.pc \in {"get", "put_expect", "put_table"} /\ seq.i > 0)
          => ( /\ seq.polled # None
               /\ seq.polled <= args.max_blocks_queued * args.lines_per_block )
    /\ (pgen.pc = "put_table" /\ pgen.i > 0)
          => ( /\ pgen.polled # None
               /\ pgen.polled <= PgenQueued * args.lines_per_block )

\* The seq injector waits on a poll above the limit with a block still to send.
C10_Witness ==
    /\ seq.pc = "poll"
    /\ seq.polled # None
    /\ seq.polled > args.max_blocks_queued * args.lines_per_block
    /\ seq.i + 1 < args.nblocks

SeqJoined == SeqAllEnded /\ main \in {"joined", "done"}

\* C4: with repeats = 1 on a device that acknowledges every upload, drains
\* its queue, streams every word and closes, every producer, the injector,
\* the capture reader and every checker worker end, and the join returns.
C4_StagesEnd == (args.repeats = 1) => <>SeqJoined

\* The join has returned in a streaming run of two producers and two workers.
C4_Witness ==
    /\ main = "joined"
    /\ args.nblocks = 2 /\ args.producer_threads = 2 /\ args.checker_threads = 2

RECURSIVE Compared(_)
Compared(ws) ==
    IF ws = {} THEN 0
    ELSE LET w == CHOOSE x \in ws : TRUE IN chk[w].compared + Compared(ws \ {w})

\* C5: with nblocks = 1 and repeats > 1, all the captured blocks (repeats of
\* them) are compared, every checker worker exits and the join returns.
C5_RepeatsCompared ==
    (args.nblocks = 1 /\ args.repeats > 1)
       => <>( /\ Compared(DOMAIN chk) = args.repeats
              /\ \A w \in DOMAIN chk : chk[w].pc = "done"
              /\ SeqJoined )

\* C11: a backpressure wait that goes on after a poll has read a value above
\* the threshold: a poll at or below it, the threshold itself included, ends
\* the wait.
C11_WaitEndsAtThreshold ==
    /\ (seq.pc = "poll" /\ seq.polled # None)
          => seq.polled > args.max_blocks_queued * args.lines_per_block
    /\ (pgen.pc = "poll" /\ pgen.polled # None)
          => pgen.polled > PgenQueued * args.lines_per_block

\* C12: in a single-block session (nblocks = 1) the injector never polls
\* QUEUED_LINES: it is never in the backpressure wait and no poll has been
\* made, whatever the reply to the upload.
C12_SingleBlockNeverPolls ==
    /\ (args.nblocks = 1 /\ seq.pc # "off")
          => (seq.pc # "poll" /\ seq.polled = None)
    /\ (args.nblocks = 1 /\ pgen.pc # "off")
          => (pgen.pc # "poll" /\ pgen.polled = None)

\* The seq injector has closed after its single, acknowledged upload.
C12_Witness ==
    /\ args.nblocks = 1
    /\ seq.pc = "done"
    /\ seq.acks = << "OK" >>

\* C13: once the device has answered an upload with a reply that does not
\* begin with OK, that upload is the last one the injector sent, the injector
\* is failing or has failed, and it has made no poll since.
C13_RejectedUploadEndsInjector ==
    /\ seq.pc # "off" =>
         \A k \in 1..Len(seq.acks) :
            seq.acks[k] # "OK" => /\ k = Len(seq.acks)
                                  /\ seq.pc \in {"set_event", "failed"}
                                  /\ seq.polled = None
    /\ pgen.pc # "off" =>
         \A k \in 1..Len(pgen.acks) :
            pgen.acks[k] # "OK" => /\ k = Len(pgen.acks)
                                   /\ pgen.pc = "failed"
                                   /\ pgen.polled = None

\* The seq injector has failed on its second upload with a third block still
\* to send.
C13_Witness ==
    /\ seq.pc = "failed"
    /\ seq.acks = << "OK", "ERR" >>
    /\ args.nblocks = 3

\* A stage of the seq run has ended on a failed assertion.
SeqStageFailed ==
    \/ seq.pc = "failed"
    \/ pcap.pc = "failed"
    \/ \E w \in DOMAIN chk : chk[w].pc = "failed"

\* C14: once the injector has failed on a rejected upload, or a checker
\* worker on a value mismatch, every stage eventually ends and the
\* orchestrator's join returns.
C14_FailureEndsEveryStage ==
    (seq.pc = "failed" \/ \E w \in DOMAIN chk : chk[w].pc = "failed")
       ~> SeqJoined

\* C15: the orchestrator does not run to its normal end, the exit of main
\* with status 0, when a stage process has ended on a failed assertion.
C15_FailedStageFailsRun ==
    /\ main = "done" => ~SeqStageFailed
    /\ gmain = "done" => (pgen.pc # "failed" /\ gpcap.pc # "failed")

\* The suffix the open line of block i (from 0) of an n-block session is to
\* carry.
OpenOf(i, n) == IF n = 1 THEN "<" ELSE IF i < n - 1 THEN "<<" ELSE "<<|"

\* C16: the open lines an injector has sent so far are those of blocks
\* 0, 1, ... of its session, at most nblocks of them: '<' for a single block,
\* otherwise '<<' for every block but the last and '<<|' for the last, after
\* which nothing is uploaded.
C16_OpenLineSuffixes ==
    /\ seq.pc # "off" =>
         /\ Len(seq.opens) <= args.nblocks
         /\ \A k \in 1..Len(seq.opens) : seq.opens[k] = OpenOf(k - 1, args.nblocks)
    /\ pgen.pc # "off" =>
         /\ Len(pgen.opens) <= args.nblocks
         /\ \A k \in 1..Len(pgen.opens) :
              pgen.opens[k] = OpenOf(k - 1, args.nblocks)

\* The seq injector has closed after a streaming session of three blocks.
C16_Witness ==
    /\ seq.pc = "done"
    /\ seq.opens = << "<<", "<<", "<<|" >>

\* C17: the lines prepare_table_command returns for content of N elements are
\* one open line, ceil(N / 191) data lines and one empty line; no data line
\* encodes an empty chunk, every data line but the last encodes a chunk of
\* full size (191 elements), and the data lines decoded in order and joined
\* are the bytes of the content.
C17_TableRoundTrip ==
    /\ enc.pc \in {"read", "done"} =>
         LET n == Len(enc.content)
             lines == enc.commands
             c == (n + ChunkSize - 1) \div ChunkSize
         IN /\ Len(lines) = c + 2
            /\ lines[1] = OpenLine(Suffix(enc.streaming, enc.last))
            /\ lines[c + 2] = EmptyLine
            /\ \A j \in 1..c : B64Decode(lines[j + 1]) # <<>>
            /\ \A j \in 1..(c - 1) : Len(B64Decode(lines[j + 1])) = 4 * ChunkSize
            /\ enc.decoded =
                 SubSeq(ToBytes(enc.content), 1, Len(enc.decoded))
    /\ enc.pc = "done" => enc.decoded = ToBytes(enc.content)

\* A table of two full chunks and one more element has been read back.
C17_Witness ==
    /\ enc.pc = "done"
    /\ Len(enc.content) = 2 * ChunkSize + 1
    /\ Len(enc.commands) = 5

\* C18: every data line prepare_table_command returns encodes at most 191
\* bytes of the content.
C18_LineHoldsAtMost191Bytes ==
    enc.pc \in {"read", "done"} =>
        \A j \in 2..(Len(enc.commands) - 1) :
            Len(B64Decode(enc.commands[j])) <= ChunkSize

\* C19: in nbytes mode every buffer collect yields has exactly nbytes bytes,
\* but the buffer yielded after the peer closed, which may be shorter when
\* the length of the stream is no multiple of nbytes.
C19_BlocksOfNBytes ==
    (col.pc # "off" /\ col.nbytes # 0) =>
        \A k \in 1..Len(col.out) :
           \/ Len(col.out[k]) = col.nbytes
           \/ /\ k = Len(col.out)
              /\ col.tail = 1
              /\ Len(col.out[k]) < col.nbytes
              /\ Len(col.got) % col.nbytes # 0

RECURSIVE Concat(_)
Concat(bufs) == IF bufs = <<>> THEN <<>> ELSE Head(bufs) \o Concat(Tail(bufs))

\* C20: in both modes the buffers yielded so far, joined in order and
\* followed by the bytes still held, are the bytes received; when the
\* generator has ended the buffers yielded are all the bytes received, and a
\* non-empty residual was yielded once, an empty one not at all.
C20_NothingLostOrReordered ==
    col.pc # "off" =>
        /\ Concat(col.out) \o (IF col.pc = "done" THEN <<>> ELSE col.acc) = col.got
        /\ col.pc = "recv" => col.tail = 0
        /\ col.pc = "done" =>
             /\ col.rest = <<>>
             /\ col.tail = (IF col.acc # <<>> THEN 1 ELSE 0)
             /\ col.tail = 1 => col.out[Len(col.out)] = col.acc

\* A stream of nine bytes has been read in blocks of four: two blocks and a
\* residual of one byte.
C20_Witness ==
    /\ col.pc = "done"
    /\ col.nbytes = 4
    /\ Len(col.got) = 9
    /\ Len(col.out) = 3
    /\ col.tail = 1

\* C21: without nbytes, every buffer collect yields before the peer closes
\* has a length that is a multiple of 4 and not zero; while the bytes held
\* are no multiple of 4 nothing is yielded, and the bytes held are the end of
\* what was received, so they open the next buffer yielded.
C21_WordAlignedBuffers ==
    (col.pc # "off" /\ col.nbytes = 0) =>
        /\ \A k \in 1..(Len(col.out) - col.tail) :
              Len(col.out[k]) > 0 /\ Len(col.out[k]) % 4 = 0
        /\ col.pc = "recv" =>
              /\ Len(col.acc) < 4 \/ Len(col.acc) % 4 # 0
              /\ Len(col.acc) <= Len(col.got)
              /\ col.acc = SubSeq(col.got, Len(col.got) - Len(col.acc) + 1,
                                  Len(col.got))
        /\ \A k \in 1..Len(col.out) :
              col.out[k][1] = 1 + Len(Concat(SubSeq(col.out, 1, k - 1)))

\* Three bytes were held back after a first buffer of four and came out at
\* the front of a second buffer of eight.
C21_Witness ==
    /\ col.nbytes = 0
    /\ col.tail = 0
    /\ Len(col.out) = 2
    /\ Len(col.out[1]) = 4
    /\ Len(col.out[2]) = 8
    /\ col.out[2][1] = 5

\* C30: whatever the outcome, the stage that checks the captured data has
\* reported the total count of values it checked by the time it ends. In
\* seq.py the print of line 123 comes before the final assertion, so a stage
\* that has left the receive loop has reported; in pgen.py the print of line
\* 137 comes after the loop in which the value assertion raises.
C30_CountReportedOnEveryOutcome ==
    (gpcap.pc # "off" /\ Ended(gpcap.pc)) => gpcap.reported

\* A get, put or fetch_metadata has returned or raised after recv returned.
CtlEnded ==
    /\ ctl.pc \in {"done", "raised"}
    /\ ctl.exc \notin {"timeout", "connect"}

\* The lines of a multi-line response before the line that holds only '.'.
DataLines(r) ==
    LET lines == SplitOn(r, "\n") IN SubSeq(lines, 1, Len(lines) - 2)

\* Every such line is a '!' and an integer.
IntegerLines(r) ==
    \A k \in 1..Len(DataLines(r)) :
        /\ StartsWith(DataLines(r)[k], << "!" >>)
        /\ IsIntLiteral(Drop(DataLines(r)[k], 1))

\* C22: Item.get, given the complete response: it raises when the response
\* begins with ERR; it returns the integers of the lines, in order and
\* without the terminator, when the response begins with '!' and its lines
\* are integers; it returns the value after the first '=' when the response
\* is neither and holds an '='; it raises when the response holds none.
C22_GetClassifiesResponse ==
    (ctl.pc # "off" /\ ctl.op = "get" /\ CtlEnded /\ ctl.total = ctl.resp) =>
        LET r == ctl.resp IN
        /\ StartsWith(r, << "E", "R", "R" >>) => ctl.pc = "raised"
        /\ (StartsWith(r, << "!" >>) /\ IntegerLines(r)) =>
              /\ ctl.pc = "done"
              /\ ctl.ret.kind = "list"
              /\ ctl.ret.items =
                    [k \in 1..Len(DataLines(r)) |-> IntOf(Drop(DataLines(r)[k], 1))]
        /\ (~StartsWith(r, << "E", "R", "R" >>) /\ ~StartsWith(r, << "!" >>) /\ Find(r, "=") # 0) =>
              /\ ctl.pc = "done"
              /\ ctl.ret.kind \in {"int", "float", "str"}
              /\ ctl.ret.text = Strip(AfterFirst(r, "="))
        /\ (~StartsWith(r, << "E", "R", "R" >>) /\ ~StartsWith(r, << "!" >>) /\ Find(r, "=") = 0) =>
              ctl.pc = "raised"

\* A get has returned the list 5, -5 from a response that came in more than
\* one chunk.
C22_Witness ==
    /\ ctl.pc = "done"
    /\ ctl.op = "get"
    /\ ctl.chunks >= 2
    /\ ctl.ret.kind = "list"
    /\ ctl.ret.items = << 5, -5 >>

\* C23: for a response name=value, Item.get returns an integer whenever the
\* value is a decimal integer literal, signed or not; a float only when the
\* value is no integer literal and parses as a float; the raw string
\* otherwise.
C23_IntegerThenFloatThenString ==
    ( /\ ctl.pc = "done"
      /\ ctl.op = "get"
      /\ ctl.ret.kind \in {"int", "float", "str"} ) =>
        LET v == ctl.ret.text IN
        /\ IsIntLiteral(v) => (ctl.ret.kind = "int" /\ ctl.ret.num = IntOf(v))
        /\ ctl.ret.kind = "float" => (~IsIntLiteral(v) /\ IsFloatLiteral(v))
        /\ ctl.ret.kind = "str" => (~IsIntLiteral(v) /\ ~IsFloatLiteral(v))

\* C24: Item.put, scalar or array, returns normally exactly when the
\* response of the device begins with OK and raises otherwise; for an array
\* it has sent one table session: a '<' open line, the data lines and the
\* empty line.
C24_PutNeedsOk ==
    (ctl.pc # "off" /\ ctl.op \in {"put", "put_array"} /\ CtlEnded) =>
        /\ ctl.pc = "done" <=> StartsWith(ctl.resp, << "O", "K" >>)
        /\ ctl.op = "put_array" =>
              /\ ctl.sent[1] = OpenLine("<")
              /\ ctl.sent[Len(ctl.sent)] = EmptyLine
              /\ Len(ctl.sent) = NChunks(ctl.content) + 2
              /\ \A k \in 2..(Len(ctl.sent) - 1) :
                    B64Decode(ctl.sent[k]) = ToBytes(Chunk(ctl.content, k - 1))

\* The put of an array was answered with an error and has raised.
C24_Witness ==
    /\ ctl.pc = "raised"
    /\ ctl.op = "put_array"
    /\ ctl.exc = "ValueError"
    /\ ctl.resp = << "E", "R", "R", " ", "A", "\n" >>
    /\ ctl.sent[1] = OpenLine("<")

\* C25: a multi-line read, of Item.get or of fetch_metadata, ends only once
\* the line that holds only '.' has been received: when it has ended, it
\* has read the whole response and nothing of it is left on the connection.
C25_ReadStopsAtTerminatorOnly ==
    ( /\ ctl.pc # "off"
      /\ ctl.op \in {"get", "fetch_metadata"}
      /\ StartsWith(ctl.resp, << "!" >>)
      /\ CtlEnded ) =>
        /\ ctl.total = ctl.resp
        /\ ctl.pend = <<>>
        /\ ctl.sock = <<>>

\* C26: however the bytes of the response are split over the reads,
\* Item.get returns or raises what it does for the response read whole, and
\* leaves none of its bytes unread.
C26_SplitsDoNotMatter ==
    (ctl.pc # "off" /\ ctl.op = "get" /\ CtlEnded) =>
        /\ ctl.ret = GetValue(ctl.resp)
        /\ ctl.pend = <<>>
        /\ ctl.sock = <<>>

\* C27: once sock.recv has found the connection closed by the peer, the
\* pending recv has ended with a failure.
C27_PeerCloseEndsRecv ==
    (ctl.pc # "off" /\ ctl.eofs > 0) => ctl.pc = "raised"

\* C28: on a connected client no read ends with a timeout.
C28_NoReadTimeout ==
    ctl.pc # "off" => ctl.exc # "timeout"

\* C29: the resolution of every path, the empty one that
\* get_first_instance_name returns included, ends without raising and
\* returns an Item whose path is the path given, upper-cased.
C29_ResolveNeverFails ==
    (nav.pc # "off" /\ nav.pc \in {"done", "raised"}) =>
        /\ nav.pc = "done"
        /\ nav.ret = "Item"
        /\ nav.cur = Upper(nav.path)

\* C31: the pgen run with lines_per_block = 16, nblocks = 1, repeats = 1 and
\* start_number = 0 on a device that replays the table: the only upload is
\* one '<' session and the table the device holds after it is what is left
\* to play of the values 0..15; the injector never polls QUEUED_LINES; the
\* capture reader never rejects a word, and when it ends it has counted 16
\* lines, reported them, and passed; a run that ends has passed.
C31_SixteenLineScenario ==
    (pgen.pc # "off" /\ args.lines_per_block = 16) =>
        /\ pgen.opens \in { <<>>, << "<" >> }
        /\ pgen.acks \in { <<>>, << "OK" >> }
        /\ pgen.acks = << "OK" >> =>
              dev.queue = SubSeq(PgenWords(BigOf(0), 16), dev.emitted + 1, 16)
        /\ pgen.pc # "poll" /\ pgen.polled = None
        /\ pgen.pc # "failed" /\ gpcap.pc # "failed"
        /\ gpcap.pc = "recv" =>
              gpcap.i = BigOf((gpcap.rx - Len(gpcap.acc)) \div 4)
        /\ gpcap.pc = "done" =>
              (gpcap.i = BigOf(16) /\ gpcap.rx = 64 /\ gpcap.reported)
        /\ gmain = "done" => (pgen.pc = "done" /\ gpcap.pc = "done")

\* The run of 16 lines has ended: one '<' upload, 16 lines checked.
C31_Witness ==
    /\ args.lines_per_block = 16
    /\ gmain = "done"
    /\ pgen.opens = << "<" >>
    /\ gpcap.pc = "done"
    /\ gpcap.i = BigOf(16)
    /\ dev.emitted = 16

\* C32: a checker never accepts a block that disagrees with what it expects.
\* In seq, a worker that leaves the comparison of a block whose number of
\* captured words differs from the number of expected values, or in which
\* the value decoded from some word differs from the expected value at the
\* same index, leaves it failed. In pgen, a buffer that collect() hands to
\* the checking loop with an entry different from the value the loop expects
\* at that index ends handle_pcap with the value error.
C32_MismatchFails ==
    [][ /\ \A w \in DOMAIN chk :
             ( /\ chk[w].pc = "compare"
               /\ chk'[w].pc # "compare"
               /\ LET adata == FromBuffer(chk[w].data)
                      expected == chk[w].expected.vals
                  IN \/ Len(adata) # Len(expected)
                     \/ \E j \in 1..Len(expected) :
                          DecodeVal(adata[j], SeqOffsets) # expected[j] )
             => chk'[w].pc = "failed"
        /\ ( /\ gpcap.pc = "recv"
             /\ gpcap' # gpcap
             /\ LET out == IF stream' # stream
                           THEN CollectStep(gpcap.acc,
                                    Take(stream, Len(stream) - Len(stream')),
                                    0).out
                           ELSE CollectEnd(gpcap.acc)
                IN /\ out # <<>>
                   /\ Len(out[1]) % 4 = 0
                   /\ \E j \in 1..Len(FromBuffer(out[1])) :
                        FromBuffer(out[1])[j] # PgenExpected(gpcap.i, j - 1) )
           => (gpcap'.pc = "failed" /\ gpcap'.err = "value") ]_vars

\* A seq worker has failed on a block with fewer captured words than expected
\* values, every captured word of which decodes to its expected value.
C32_Witness ==
    \E w \in DOMAIN chk :
        /\ chk[w].pc = "failed"
        /\ chk[w].data # <<>>
        /\ Len(FromBuffer(chk[w].data)) < Len(chk[w].expected.vals)
        /\ \A j \in 1..Len(FromBuffer(chk[w].data)) :
             DecodeVal(FromBuffer(chk[w].data)[j], SeqOffsets)
               = chk[w].expected.vals[j]

\* C33: each of buffer_q, expect_q and checker_q holds at most 16 items; a
\* process at a put on a full queue, or at a get on an empty one, does
\* nothing until another process has taken or put an item; every step on a
\* queue takes its head or appends at its tail, and the getter receives
\* exactly the head.
C33_BoundedBlockingFifo ==
    /\ [](/\ Len(buffer_q) <= 16
          /\ Len(expect_q) <= 16
          /\ Len(checker_q) <= 16)
    /\ [][ /\ Len(buffer_q) = 16 => prod' = prod
           /\ (seq.pc = "put_expect" /\ Len(expect_q) = 16) => seq' = seq
           /\ ( /\ Len(checker_q) = 16
                /\ \/ pcap.pc = "put"
                   \/ pcap.pc = "sentinel" /\ pcap.sent < args.checker_threads )
                => pcap' = pcap
           /\ (seq.pc = "get" /\ buffer_q = <<>>) => seq' = seq
           /\ \A w \in DOMAIN chk :
                /\ (chk[w].pc = "get" /\ checker_q = <<>>) => chk'[w] = chk[w]
                /\ (chk[w].pc = "expect" /\ expect_q = <<>>)
                     => chk'[w] = chk[w]
                /\ (chk[w].pc = "get" /\ chk'[w].pc = "expect")
                     => /\ chk'[w].nblock = Head(checker_q).nblock
                        /\ chk'[w].data = Head(checker_q).data
                /\ (chk[w].pc = "expect" /\ chk'[w].pc = "compare")
                     => chk'[w].expected = Head(expect_q)
           /\ (seq.pc = "get" /\ seq'.pc = "put_expect")
                => /\ seq'.content = Head(buffer_q).content
                   /\ seq'.expected = Head(buffer_q).expected
           /\ \A q \in { << buffer_q, buffer_q' >>, << expect_q, expect_q' >>,
                         << checker_q, checker_q' >> } :
                \/ q[2] = q[1]
                \/ q[1] # <<>> /\ q[2] = Tail(q[1])
                \/ Len(q[2]) = Len(q[1]) + 1 /\ SubSeq(q[2], 1, Len(q[1])) = q[1]
         ]_vars

\* expect_q and checker_q are both full: the injector is at the put of the
\* expected list of the last block, and the sixteen blocks before it have
\* been captured and queued while the checker did nothing.
C33_Witness ==
    /\ Len(expect_q) = 16
    /\ Len(checker_q) = 16
    /\ seq.pc = "put_expect"
    /\ seq.i = 16

\* C34: a checker worker that holds the lock while another worker waits for
\* it gives it up in the end.
C34_LockReleasedInTheEnd ==
    \A w \in 1..MaxCheckers :
        (lock = w /\ \E v \in DOMAIN chk : chk[v].pc = "acquire")
            ~> (lock # w)

\* C35: the block the pgen injector is about to build, block i, has exactly
\* lines_per_block words and its word j is
\* (start_number + i * lines_per_block + j) mod 2^32, also when the block
\* wraps past 2^32 or ends exactly at 2^32; and with repeats = 1 the value
\* the checker expects for the k-th captured word is
\* (start_number + k) mod 2^32.
C35_WordsModulo32Bits ==
    /\ pgen.pc = "put_table" =>
         LET content == PgenContent(pgen.block_start, pgen.block_stop) IN
         /\ Len(content) = args.lines_per_block
         /\ \A j \in 0..(args.lines_per_block - 1) :
              content[j + 1] =
                BigMask32(BigAdd(args.start_number,
                                 pgen.i * args.lines_per_block + j))
    /\ (gpcap.pc = "recv" /\ args.repeats = 1) =>
         LET checked == (gpcap.rx - Len(gpcap.acc)) \div 4 IN
         \A j \in 0..MaxPgenLines :
            PgenExpected(gpcap.i, j) =
              BigMask32(BigAdd(args.start_number, checked + j))

\* A block of two words that starts at 2^32 - 1 has been uploaded, played and
\* checked: the words 2^32 - 1 and 0 were both accepted.
C35_Witness ==
    /\ args.start_number = << 65535, 65535 >>
    /\ args.lines_per_block = 2
    /\ args.repeats = 1
    /\ pgen.acks # <<>>
    /\ dev.emitted = 2
    /\ gpcap.rx = 8
    /\ gpcap.i = << 65536, 1 >>

\* C36: on a device that plays the table faithfully, a pgen run with
\* repeats > 1 never fails on a captured value: the value the checker expects
\* for the k-th captured word is the word at table position
\* k mod lines_per_block.
C36_RepeatsNeverFailOnAValue ==
    (pgen.pc # "off" /\ fault = "none" /\ args.repeats > 1)
        => ~(gpcap.pc = "failed" /\ gpcap.err = "value")

\* C37: in both pipelines the orchestrator has sent ENABLE=ONE only if the
\* capture reader has armed capture.
C37_EnableAfterArm ==
    /\ main \in {"join", "joined", "done"} => pcap.pc # "arm"
    /\ gmain \in {"join", "joined", "done"} => gpcap.pc # "arm"

\* C38: during a streaming injection (nblocks > 1) the number of lines queued
\* in the device never exceeds (T + 1) * lines_per_block, where T is
\* max_blocks_queued in seq and 2 in pgen.
C38_QueueDepthBounded ==
    /\ (seq.pc # "off" /\ args.nblocks > 1)
          => QueuedLines(dev)
                <= (args.max_blocks_queued + 1) * args.lines_per_block
    /\ (pgen.pc # "off" /\ args.nblocks > 1)
          => QueuedLines(dev) <= (2 + 1) * args.lines_per_block

\* The pgen injector has just sent a block on a poll equal to its limit: the
\* device holds three blocks and the injector polls again.
C38_Witness ==
    /\ pgen.pc = "poll"
    /\ args.nblocks > 1
    /\ pgen.polled = None
    /\ QueuedLines(dev) = 3 * args.lines_per_block

\* C39: when connect() has returned on a PandaClient, whatever the number of
\* connect() calls made on it before, fields and instances hold what the
\* *CHANGES? response just read reports and nothing else, in step with
\* capture_fields.
C39_SnapshotOfLatestResponse ==
    (ctl.pc = "done" /\ ctl.op = "fetch_metadata") =>
        /\ ctl.fields = MetaParse(ctl.total).fields
        /\ ctl.instances = MetaParse(ctl.total).instances
        /\ ctl.capture_fields = MetaParse(ctl.total).capture_fields

====
